---- MODULE Spec2Model ----
(***************************************************************************)
(* Timeline viewport engine of sweem-tui: TimelineState (scroll, zoom,     *)
(* selection), the date <-> column transform of TimelineWidget, the        *)
(* centering algorithms, and the App handlers that drive them.             *)
(*                                                                         *)
(* Dates (chrono::NaiveDate) are integers counting days; the difference    *)
(* (a - b).num_days() is integer subtraction.  Option<T> is a set with at  *)
(* most one element.  days_per_column (f64) is held in units of            *)
(* 1/ZoomScale day: every value the program can reach from 1.0 by halving  *)
(* and doubling between 0.25 and 16.0 is a multiple of 0.25, and all the   *)
(* f64 products and quotients taken on it are exact at these magnitudes,   *)
(* so the `as i64` casts are truncations of exact rationals.               *)
(***************************************************************************)
EXTENDS Integers, Sequences, FiniteSets, TLC

VARIABLES
    projects,          \* App.projects: Vec<ProjectDto>
    scroll_offset,     \* TimelineState.scroll_offset: i64 (days)
    selected_project,  \* TimelineState.selected_project: Option<usize>
    days_per_column,   \* TimelineState.days_per_column, in 1/ZoomScale days
    is_loading,        \* App.is_loading
    today,             \* chrono::Local::now().date_naive()
    last_key,          \* the event most recently handled by the App
    input_mode,        \* App.input_mode
    form_state,        \* App.form_state: Option<FormState>
    confirm_dialog,    \* App.confirm_dialog: Option<ConfirmDialog>
    active_tab,        \* App.active_tab
    clients,           \* App.clients: Vec<ClientDto>
    users,             \* App.users: Vec<UserDto>
    list_selected,     \* App.list_selected
    error_popup,       \* App.error_popup: Option<(title, message)>
    last_cmd,          \* the Option<ApiCommand> the last handle_key returned
    show_help,         \* App.show_help
    should_quit,       \* App.should_quit
    cmd_queue,         \* mpsc channel of ApiCommand, event loop -> worker
    msg_queue,         \* mpsc channel of ApiMessage, worker -> event loop
    ui_pc,             \* where run_event_loop is in its loop body
    ui_pending,        \* commands the event loop has yet to send
    worker_pending,    \* messages run_api_worker has yet to send for its command
    worker_cmd,        \* the command whose HTTP calls run_api_worker awaits
    worker_pc,         \* where run_api_worker is: in its loop, between the
                       \* health check and the fetches of a RefreshAll, or
                       \* ended
    key_script,        \* the keys the user has yet to press, in order
    sel_total,         \* the `total` a caller passes to select_next / select_previous
    sel_start,         \* selected_project before the caller's first call
    sel_calls,         \* the calls the caller has made, in order
    role_arg,          \* the Role or i32 a caller starts a conversion from
    role_res,          \* the results of the caller's conversions, in order
    animation_frame    \* TimelineState.animation_frame: u64, as four 16-bit
                       \* limbs, lowest first

\* the modal state of the App, and what its forms draw on
modal_vars == <<input_mode, form_state, confirm_dialog, active_tab, clients,
                users, list_selected, error_popup, last_cmd, show_help,
                should_quit>>

\* the two channels and the two tasks of main.rs
loop_vars == <<cmd_queue, msg_queue, ui_pc, ui_pending, worker_pending,
               worker_cmd, worker_pc, key_script>>

\* a direct caller of the pure functions
call_vars == <<sel_total, sel_start, sel_calls, role_arg, role_res>>
caller_vars == <<call_vars, animation_frame>>

vars == <<projects, scroll_offset, selected_project, days_per_column,
          is_loading, today, last_key, modal_vars, loop_vars, caller_vars>>

----------------------------------------------------------------------------
(* Bounds of the model *)

\* scroll_right is unbounded in the code; the keys are explored up to here
MaxScroll == 12
\* scroll_left is explored down to -MaxScrollLeft
MaxScrollLeft == 8
\* longest project list the backend delivers
MaxProjects == 2
\* largest `total` a caller passes to select_next / select_previous
MaxTotal == 3
\* the integers converted to a Role are those of magnitude up to this, and
\* the two ends of i32
MaxRoleInt == 50
\* longest text typed into a form field, in chars
MaxText == 2
\* most keys the user presses while the event loop and the worker run
MaxKeys == 4
\* calls of tick explored from each starting animation_frame
MaxTicks == 2

\* the passes of the event loop followed while keys open and close the
\* modals, and while the burst of Save presses is typed and answered
MaxLoopTicks == 6
MaxBurstTicks == 48
\* presses of Enter on the Save button of the create-client form
Creates == 20
\* presses of 'r' after the form is closed
Refreshes == 12
\* the date pickers of a form are moved at most this many days from today
MaxDateShift == 2
\* a formula about "every date" ranges over the dates at most this many
\* days away from the date at the viewport's left edge, on either side
DateWindow == 17

----------------------------------------------------------------------------
(* Representation and program constants *)

ZoomScale == 4
\* 0.25 and 14.0, the literals guarding zoom_in and zoom_out
ZoomInGuard == 1
ZoomOutGuard == 56
\* TimelineState::default().days_per_column = 1.0
DefaultZoom == 4
NameColumn == 26
JumpViewportWidth == 100
TodayViewportWidth == 80
Lookback == 30

None == {}
Some(x) == {x}
Unwrap(o) == CHOOSE x \in o : TRUE

\* a value handed to or returned by a conversion: a Role or an i32
RoleVal(role) == [role |-> Some(role), int |-> None]
IntVal(value) == [role |-> None, int |-> Some(value)]

Max(a, b) == IF a >= b THEN a ELSE b
Min(a, b) == IF a <= b THEN a ELSE b

\* Rust integer division and the `f64 as i64` cast both round toward zero
TruncDiv(a, b) == IF a >= 0 THEN a \div b ELSE -((-a) \div b)

\* the subtraction without saturation
SubUnsaturated(a, b) == a - b

\* u16::saturating_sub
SatSubU16(a, b) == IF a >= b THEN a - b ELSE 0

\* self.days_per_column as i64
ZoomAsI64(z) == z \div ZoomScale

----------------------------------------------------------------------------
(* Inputs *)

\* a String: the sequence of its chars, drawn from a blank, a one-byte
\* letter and a two-byte letter
Chars == {" ", "a", "é"}

\* char::len_utf8 on the model's chars
len_utf8(c) == IF c = "é" THEN 2 ELSE 1

\* String::len: the length in bytes
RECURSIVE byte_len(_)
byte_len(text) ==
    IF text = <<>> THEN 0 ELSE len_utf8(Head(text)) + byte_len(Tail(text))

\* str::is_char_boundary: n bytes are a whole number of the text's chars
is_char_boundary(text, n) ==
    \E k \in 0..Len(text) : byte_len(SubSeq(text, 1, k)) = n

\* Uuid::nil(); every other id is a positive number
NilId == 0

\* a ProjectDto.  The inputs tell projects apart by their start dates, hence
\* the id; all are named "a" and belong to client 1 and manager 1.
Project(s, e, a) ==
    [id |-> s + 1, name |-> <<"a">>, client_id |-> 1, manager_id |-> 1,
     start_date |-> s, planned_end_date |-> e, actual_end_date |-> a]

\* a ClientDto
Client(id) == [id |-> id, name |-> <<"a">>, address |-> <<>>]

\* a UserDto
User(id) == [id |-> id, name |-> <<"a">>, login |-> <<"a">>, role |-> "Manager"]

ProjectPool ==
    { Project(0, 76, None),        \* half duration 38, past the centre column
      Project(90, 95, None),       \* far from the others' start
      Project(5, 82, Some(80)) }   \* completed early, half duration 37

SeqsUpTo(S, n) == UNION { [1..k -> S] : k \in 0..n }

ProjectLists == SeqsUpTo(ProjectPool, MaxProjects)

\* projects for the bar layout: a long one, a far one, a one-day one and one
\* whose end date is before its start date
LayoutPool ==
    { Project(0, 76, None),
      Project(90, 95, None),
      Project(3, 3, None),
      Project(11, 10, None) }

\* one project alone, or after the project that fixes the epoch at day 0
LayoutLists ==
    {<<>>} \cup { <<p>> : p \in LayoutPool }
           \cup { <<Project(0, 76, None), p>> : p \in LayoutPool }

Todays == {85}

\* projects with every order of start, planned end and actual end around
\* a given day
StatusProjects(day) ==
    LET days == {day - 5, day, day + 5}
    IN { Project(st, pl, ac) : st \in days, pl \in days,
                               ac \in {None} \cup { Some(d) : d \in days } }
\* widths of the Rect the TimelineWidget is rendered in
AreaWidths == {40, 100}

----------------------------------------------------------------------------
(* TimelineState *)

\* Iterator::min over a non-empty collection
MinOf(S) == CHOOSE m \in S : \A x \in S : m <= x

\* the epoch taken from the first project of the list instead of the earliest
calculate_timeline_start_first(ps) ==
    IF Len(ps) = 0 THEN today - Lookback
    ELSE ps[1].start_date

\* TimelineState::calculate_timeline_start / TimelineWidget::calculate_timeline_start
calculate_timeline_start(ps) ==
    IF Len(ps) = 0 THEN today - Lookback
    ELSE MinOf({ ps[i].start_date : i \in 1..Len(ps) })

project_end_date(p) ==
    IF p.actual_end_date = None THEN p.planned_end_date ELSE Unwrap(p.actual_end_date)

project_mid(p) ==
    p.start_date + TruncDiv(project_end_date(p) - p.start_date, 2)

\* jump_to_project without the final .max(0)
jump_to_project_unclamped(project, ps, viewport_width) ==
    LET timeline_start == calculate_timeline_start(ps)
        days_from_start == project_mid(project) - timeline_start
        effective_width == SatSubU16(viewport_width, NameColumn)
        center_offset == (effective_width \div 2) * ZoomAsI64(days_per_column)
    IN days_from_start - center_offset

\* jump_to_project moving the viewport relative to where it is
jump_to_project_relative(project, ps, viewport_width) ==
    LET timeline_start == calculate_timeline_start(ps)
        days_from_start == project_mid(project) - timeline_start
        effective_width == SatSubU16(viewport_width, NameColumn)
        center_offset == (effective_width \div 2) * ZoomAsI64(days_per_column)
    IN Max(scroll_offset + days_from_start - center_offset, 0)

\* the scroll_offset that jump_to_project stores
jump_to_project(project, ps, viewport_width) ==
    LET timeline_start == calculate_timeline_start(ps)
        days_from_start == project_mid(project) - timeline_start
        effective_width == SatSubU16(viewport_width, NameColumn)
        center_offset == (effective_width \div 2) * ZoomAsI64(days_per_column)
    IN Max(days_from_start - center_offset, 0)

\* the scroll_offset that center_on_today stores
center_on_today(width) ==
    LET start == calculate_timeline_start(<<>>)
        days_from_start == today - start
        center_offset == (width \div 2) * ZoomAsI64(days_per_column)
    IN Max(days_from_start - center_offset, 0)

\* u64: four limbs of 16 bits, lowest first
LimbBits == 16
LimbCount == 4
LimbMax == 2^LimbBits - 1

\* TimelineState::default: animation_frame: 0
ZeroFrame == [i \in 1..LimbCount |-> 0]
\* u64::MAX
MaxFrame == [i \in 1..LimbCount |-> LimbMax]

\* u64::wrapping_add(1) on the limbs: the carry ripples upward and the carry
\* out of the highest limb is dropped
RECURSIVE wrapping_add_one(_)
wrapping_add_one(limbs) ==
    IF limbs = <<>> THEN <<>>
    ELSE IF Head(limbs) = LimbMax THEN <<0>> \o wrapping_add_one(Tail(limbs))
    ELSE <<Head(limbs) + 1>> \o Tail(limbs)

\* tick stopping at u64::MAX
tick_saturating(frame) ==
    IF frame = MaxFrame THEN frame ELSE wrapping_add_one(frame)

\* TimelineState::tick: the animation_frame after the call
tick(frame) == wrapping_add_one(frame)

scroll_left(amount) == scroll_offset - amount

scroll_right(amount) == scroll_offset + amount

\* select_previous stopping at index 0 instead of wrapping to the last index
select_previous_saturating(total) ==
    IF total = 0 THEN None
    ELSE IF selected_project = None THEN Some(0)
    ELSE IF Unwrap(selected_project) > 0 THEN Some(Unwrap(selected_project) - 1)
    ELSE Some(0)

\* TimelineState::select_previous: the selected_project after the call
select_previous(total) ==
    IF total = 0 THEN None
    ELSE IF selected_project = None THEN Some(0)
    ELSE IF Unwrap(selected_project) > 0 THEN Some(Unwrap(selected_project) - 1)
    ELSE Some(total - 1)

\* select_next wrapping one step late
select_next_late_wrap(total) ==
    IF total = 0 THEN None
    ELSE IF selected_project = None THEN Some(0)
    ELSE IF Unwrap(selected_project) < total THEN Some(Unwrap(selected_project) + 1)
    ELSE Some(0)

\* select_next without the early return for an empty list
select_next_unguarded(total) ==
    IF selected_project = None THEN Some(0)
    ELSE IF Unwrap(selected_project) < total - 1 THEN Some(Unwrap(selected_project) + 1)
    ELSE Some(0)

\* TimelineState::select_next: the selected_project after the call
select_next(total) ==
    IF total = 0 THEN None
    ELSE IF selected_project = None THEN Some(0)
    ELSE IF Unwrap(selected_project) < total - 1 THEN Some(Unwrap(selected_project) + 1)
    ELSE Some(0)

zoom_in == IF days_per_column > ZoomInGuard THEN days_per_column \div 2 ELSE days_per_column

zoom_out == IF days_per_column < ZoomOutGuard THEN days_per_column * 2 ELSE days_per_column

----------------------------------------------------------------------------
(* TimelineWidget: coordinate transform and bar layout *)

\* date_to_column_raw with the subtraction of the scroll offset reversed
date_to_column_raw_reversed(date, start) ==
    LET days_from_start == date - start
        days_with_offset == scroll_offset - days_from_start
    IN TruncDiv(days_with_offset * ZoomScale, days_per_column)

\* TimelineWidget::date_to_column_raw
date_to_column_raw(date, start) ==
    LET days_from_start == date - start
        days_with_offset == days_from_start - scroll_offset
    IN TruncDiv(days_with_offset * ZoomScale, days_per_column)

\* date_to_column accepting the column one past the last
date_to_column_inclusive(date, start, width) ==
    LET column == date_to_column_raw(date, start)
    IN IF column >= 0 /\ column <= width THEN Some(column) ELSE None

\* TimelineWidget::date_to_column
date_to_column(date, start, width) ==
    LET column == date_to_column_raw(date, start)
    IN IF column >= 0 /\ column < width THEN Some(column) ELSE None

\* the column-to-date computation adding a column count to a day count
axis_date_unit_confused(col, start) ==
    start + (scroll_offset + col)

\* the date render_time_axis shows at column col
axis_date(col, start) ==
    start + (scroll_offset + TruncDiv(col * days_per_column, ZoomScale))

\* Block::inner with Borders::ALL, for a widget area area_width wide
inner_width(area_width) == SatSubU16(area_width, 2)

bar_area_width(area_width) ==
    LET name_width == Min(24, SatSubU16(inner_width(area_width), 1))
    IN SatSubU16(inner_width(area_width), name_width + 3)

\* ProjectDto::is_completed
is_completed(p) == p.actual_end_date # None

\* is_overdue deciding by the dates alone
is_overdue_by_date(p) == today > p.planned_end_date

\* ProjectDto::is_overdue
is_overdue(p) ==
    IF is_completed(p) THEN FALSE
    ELSE today > p.planned_end_date

\* render_project_bar: status_char, by the name of the constant STATUS_*
status_char(p) ==
    IF is_completed(p) THEN "COMPLETED"
    ELSE IF is_overdue(p) THEN "OVERDUE"
    ELSE "ACTIVE"

\* render_project_bar: status_color; "color" is the project's own colour
status_color(p) ==
    IF is_completed(p) THEN "GREEN"
    ELSE IF is_overdue(p) THEN "RED"
    ELSE "color"

\* render_project_bar: start_col_raw
start_col_raw(project) ==
    date_to_column_raw(project.start_date, calculate_timeline_start(projects))

\* render_project_bar: end_col_raw
end_col_raw(project) ==
    date_to_column_raw(project_end_date(project), calculate_timeline_start(projects))

\* render_project_bar: visible_start
visible_start(project, area_width) ==
    Min(Max(start_col_raw(project), 0), bar_area_width(area_width) - 1)

\* visible_end without the clip to the last bar column
visible_end_unclipped(project, area_width) ==
    Max(end_col_raw(project), 0)

\* render_project_bar: visible_end
visible_end(project, area_width) ==
    Min(Max(end_col_raw(project), 0), bar_area_width(area_width) - 1)

\* the last guard of bar_visible hiding a span of a single column
bar_visible_strict(project, area_width) ==
    /\ inner_width(area_width) >= 30
    /\ bar_area_width(area_width) # 0
    /\ ~(end_col_raw(project) < 0 \/ start_col_raw(project) >= bar_area_width(area_width))
    /\ ~(visible_end(project, area_width) <= visible_start(project, area_width))

\* TRUE iff render_project_bar paints at least one bar cell for the project
\* when the widget is rendered in an area area_width wide (and high enough
\* to have a row for the project)
bar_visible(project, area_width) ==
    /\ inner_width(area_width) >= 30
    /\ bar_area_width(area_width) # 0
    /\ ~(end_col_raw(project) < 0 \/ start_col_raw(project) >= bar_area_width(area_width))
    /\ ~(visible_end(project, area_width) < visible_start(project, area_width))

\* the today marker placed relative to the project's own start date
today_marker_from_project_start(project, area_width) ==
    LET today_col == date_to_column(today, project.start_date,
                                    bar_area_width(area_width))
    IN IF /\ today_col # None
          /\ Unwrap(today_col) >= visible_start(project, area_width)
          /\ Unwrap(today_col) <= visible_end(project, area_width)
       THEN today_col ELSE None

\* render_project_bar: the column of the today marker, if it is drawn over
\* the bar
today_marker(project, area_width) ==
    LET today_col == date_to_column(today, calculate_timeline_start(projects),
                                    bar_area_width(area_width))
    IN IF /\ today_col # None
          /\ Unwrap(today_col) >= visible_start(project, area_width)
          /\ Unwrap(today_col) <= visible_end(project, area_width)
       THEN today_col ELSE None

\* render_project_bar: the column of the BOLD today marker it sets over the
\* project's bar, None when it returns before the marker or the marker is
\* outside the bar
marker_cell(project, area_width) ==
    IF bar_visible(project, area_width)
    THEN today_marker(project, area_width)
    ELSE None

\* render_today_line, called by render with the inner area before the bars
\* are drawn: the column of the line it sets on every row whose cell is
\* empty, None when render returns before it or today is outside the bar
\* area
today_line(area_width) ==
    IF inner_width(area_width) >= 30
    THEN date_to_column(today, calculate_timeline_start(projects),
                        bar_area_width(area_width))
    ELSE None

\* render_today_line: glow_char on the row-th row of the inner area;
\* animation_frame as u16 is the lowest limb
glow_char(row) ==
    IF (row + animation_frame[1] \div 3) % 3 = 0 THEN "heavy" ELSE "light"

\* TimelineWidget::render: the today glyph on the row of the index-th
\* project (row index + 2 of the inner area) after the whole render, as its
\* column and style: the BOLD marker of render_project_bar over the bar,
\* else the DIM line of render_today_line, which no bar cell has replaced
row_today_glyph(index, area_width) ==
    LET project == projects[index + 1]
    IN IF marker_cell(project, area_width) # None
       THEN Some([col |-> Unwrap(marker_cell(project, area_width)),
                  char |-> "light", style |-> "BOLD"])
       ELSE IF today_line(area_width) # None
       THEN Some([col |-> Unwrap(today_line(area_width)),
                  char |-> glow_char(index + 2), style |-> "DIM"])
       ELSE None

\* render_project_bar: name_width, for the Rect width it is called with
name_width(width) == Min(24, SatSubU16(width, 1))

\* ProjectDto::display_name of a project whose name is Some
display_name(project) == project.name

\* render_project_bar: laying out the name column panics.  name_width - 4
\* and name_width - 5 are usize subtractions: below 0 they overflow in a
\* debug build, and in a release build the wrapped value is a format width
\* or a slice end out of range; &name[..name_width - 5] must also end on a
\* char boundary
render_project_bar_panics(project, width) ==
    LET name == display_name(project)
    IN \/ name_width(width) < 4
       \/ /\ byte_len(name) > name_width(width) - 4
          /\ \/ name_width(width) < 5
             \/ ~is_char_boundary(name, name_width(width) - 5)

\* the outcome of a call that panics
Panic == "PANIC"

\* render_project_bar called with a Rect of the given width, without the
\* width test of render in front of it: Panic, or the columns of the bar
\* area in which it sets a cell
render_project_bar_cells(project, width) ==
    IF render_project_bar_panics(project, width) THEN Panic ELSE
    LET bar_width == SatSubU16(width, name_width(width) + 3)
        start == calculate_timeline_start(projects)
        scr == date_to_column_raw(project.start_date, start)
        ecr == date_to_column_raw(project_end_date(project), start)
        vs == Min(Max(scr, 0), bar_width - 1)
        ve == Min(Max(ecr, 0), bar_width - 1)
        today_col == date_to_column(today, start, bar_width)
    IN IF bar_width = 0 THEN {}
       ELSE IF ecr < 0 \/ scr >= bar_width THEN {}
       ELSE IF ve < vs THEN {}
       ELSE (vs..ve) \cup { c \in today_col : c >= vs /\ c <= ve }

\* the columns of the bar area in which render_project_bar sets a cell
painted_cells(project, area_width) ==
    IF bar_visible(project, area_width)
    THEN (visible_start(project, area_width)..visible_end(project, area_width))
            \cup today_marker(project, area_width)
    ELSE {}

----------------------------------------------------------------------------
(* App.  The active tab is Tab::Timeline throughout, and neither the error  *)
(* popup nor the help overlay is shown, so that handle_key dispatches on   *)
(* input_mode.                                                             *)

\* App::jump_to_selected_project: the scroll_offset after the call, given
\* the selection sel
jump_to_selected_project(sel) ==
    IF sel # None /\ Unwrap(sel) < Len(projects)
    THEN jump_to_project(projects[Unwrap(sel) + 1], projects, JumpViewportWidth)
    ELSE scroll_offset

\* auto_center_timeline keeping the prior offset
auto_center_timeline_keep(ps, so) == so

\* App::auto_center_timeline: the scroll_offset after the call, the list
\* being ps and the prior offset so
auto_center_timeline(ps, so) == IF Len(ps) = 0 THEN so ELSE 0

\* FormField::client_fields / project_fields / user_fields
client_fields == <<"ClientName", "ClientAddress", "SubmitButton", "CancelButton">>
project_fields ==
    <<"ProjectName", "ProjectClient", "ProjectManager", "ProjectStartDate",
      "ProjectEndDate", "SubmitButton", "CancelButton">>
user_fields ==
    <<"UserName", "UserLogin", "UserPassword", "UserRole", "SubmitButton",
      "CancelButton">>

\* FormField::is_text_input
is_text_input(field) ==
    field \in {"ClientName", "ClientAddress", "ProjectName", "UserName",
               "UserLogin", "UserPassword"}

\* FormField::is_date_picker
is_date_picker(field) == field \in {"ProjectStartDate", "ProjectEndDate"}

\* the FormState every constructor starts from: empty texts, indices 0, the
\* Manager role.  A date string is None when empty (it does not parse) and
\* Some(day) when it is the "%Y-%m-%d" text of a day.  form_type carries
\* the id of the edited entity in `editing` (NilId when creating).
blank_form(form_type, editing, fields) ==
    [form_type |-> form_type, editing |-> editing, focused_field |-> 0,
     fields |-> fields, error |-> None,
     client_name |-> <<>>, client_address |-> <<>>,
     project_name |-> <<>>, project_client_idx |-> 0, project_manager_idx |-> 0,
     project_start_date |-> None, project_end_date |-> None,
     user_name |-> <<>>, user_login |-> <<>>, user_password |-> <<>>,
     user_role |-> "Manager"]

\* FormState::new_create_client
new_create_client == blank_form("CreateClient", NilId, client_fields)

\* FormState::new_edit_client
new_edit_client(client) ==
    [blank_form("EditClient", client.id, client_fields) EXCEPT
        !.client_name = client.name,
        !.client_address = client.address]

\* the span FormState::new_create_project proposes, in days
DefaultProjectSpan == 30

\* FormState::new_create_project
new_create_project ==
    [blank_form("CreateProject", NilId, project_fields) EXCEPT
        !.project_start_date = Some(today),
        !.project_end_date = Some(today + DefaultProjectSpan)]

\* iter().position(|x| x.id == id).unwrap_or(0)
position_or_zero(list, id) ==
    IF \E i \in 1..Len(list) : list[i].id = id
    THEN MinOf({i \in 1..Len(list) : list[i].id = id}) - 1
    ELSE 0

\* FormState::new_edit_project(project, &self.clients, &self.users)
new_edit_project(project) ==
    [blank_form("EditProject", project.id, project_fields) EXCEPT
        !.project_name = project.name,
        !.project_client_idx = position_or_zero(clients, project.client_id),
        !.project_manager_idx = position_or_zero(users, project.manager_id),
        !.project_start_date = Some(project.start_date),
        !.project_end_date = Some(project.planned_end_date)]

\* FormState::new_create_user
new_create_user == blank_form("CreateUser", NilId, user_fields)

\* FormState::new_edit_user
new_edit_user(user) ==
    [blank_form("EditUser", user.id, user_fields) EXCEPT
        !.user_name = user.name,
        !.user_login = user.login,
        !.user_role = user.role]

\* FormState::current_field
current_field(form) == form.fields[form.focused_field + 1]

\* FormState::next_field
next_field(form) ==
    [form EXCEPT !.focused_field = (form.focused_field + 1) % Len(form.fields)]

\* FormState::prev_field
prev_field(form) ==
    [form EXCEPT !.focused_field =
        IF form.focused_field = 0 THEN Len(form.fields) - 1
        ELSE form.focused_field - 1]

\* FormState::handle_char: push c on the text current_text_mut returns
handle_char(form, c) ==
    CASE current_field(form) = "ClientName" ->
            [form EXCEPT !.client_name = Append(@, c)]
      [] current_field(form) = "ClientAddress" ->
            [form EXCEPT !.client_address = Append(@, c)]
      [] current_field(form) = "ProjectName" ->
            [form EXCEPT !.project_name = Append(@, c)]
      [] current_field(form) = "UserName" ->
            [form EXCEPT !.user_name = Append(@, c)]
      [] current_field(form) = "UserLogin" ->
            [form EXCEPT !.user_login = Append(@, c)]
      [] current_field(form) = "UserPassword" ->
            [form EXCEPT !.user_password = Append(@, c)]
      [] OTHER -> form

\* String::pop
pop(text) == IF text = <<>> THEN text ELSE SubSeq(text, 1, Len(text) - 1)

\* FormState::handle_backspace
handle_backspace(form) ==
    CASE current_field(form) = "ClientName" ->
            [form EXCEPT !.client_name = pop(@)]
      [] current_field(form) = "ClientAddress" ->
            [form EXCEPT !.client_address = pop(@)]
      [] current_field(form) = "ProjectName" ->
            [form EXCEPT !.project_name = pop(@)]
      [] current_field(form) = "UserName" ->
            [form EXCEPT !.user_name = pop(@)]
      [] current_field(form) = "UserLogin" ->
            [form EXCEPT !.user_login = pop(@)]
      [] current_field(form) = "UserPassword" ->
            [form EXCEPT !.user_password = pop(@)]
      [] OTHER -> form

\* the text focused in the form, if the focus is on a text input
current_text(form) ==
    CASE current_field(form) = "ClientName" -> Some(form.client_name)
      [] current_field(form) = "ClientAddress" -> Some(form.client_address)
      [] current_field(form) = "ProjectName" -> Some(form.project_name)
      [] current_field(form) = "UserName" -> Some(form.user_name)
      [] current_field(form) = "UserLogin" -> Some(form.user_login)
      [] current_field(form) = "UserPassword" -> Some(form.user_password)
      [] OTHER -> None

\* FormState::add_days_to_date_string: a string that does not parse gives
\* today's date
add_days_to_date_string(date, days) ==
    IF date = None THEN Some(today) ELSE Some(Unwrap(date) + days)

\* FormState::increment_date / decrement_date taken `times` times in a row,
\* each by `days` (1 or -1)
RECURSIVE step_date(_, _, _)
step_date(form, days, times) ==
    IF times = 0 THEN form
    ELSE step_date(
            CASE current_field(form) = "ProjectStartDate" ->
                    [form EXCEPT !.project_start_date =
                        add_days_to_date_string(@, days)]
              [] current_field(form) = "ProjectEndDate" ->
                    [form EXCEPT !.project_end_date =
                        add_days_to_date_string(@, days)]
              [] OTHER -> form,
            days, times - 1)

\* FormState::increment_date
increment_date(form) == step_date(form, 1, 1)

\* FormState::decrement_date
decrement_date(form) == step_date(form, -1, 1)

\* Role::next
role_next(role) == IF role = "Manager" THEN "Admin" ELSE "Manager"

\* Tab::next
tab_next(tab) ==
    CASE tab = "Clients" -> "Timeline"
      [] tab = "Timeline" -> "Users"
      [] tab = "Users" -> "Clients"

\* Tab::previous
tab_previous(tab) ==
    CASE tab = "Clients" -> "Users"
      [] tab = "Timeline" -> "Clients"
      [] tab = "Users" -> "Timeline"

\* str::trim().is_empty()
trim_is_empty(text) == \A i \in 1..Len(text) : text[i] = " "

\* Option<String>::map_or(true, |n| n.trim().is_empty())
is_blank(text) == text = None \/ trim_is_empty(Unwrap(text))

\* FormState::build_create_client / build_update_client
build_create_client(form) ==
    [name |-> Some(form.client_name),
     address |-> IF form.client_address = <<>> THEN None
                 ELSE Some(form.client_address)]

build_update_client(form) == build_create_client(form)

\* clients.get(idx).map(|c| c.id).unwrap_or(Uuid::nil())
id_at(list, idx) == IF idx < Len(list) THEN list[idx + 1].id ELSE NilId

\* FormState::build_create_project / build_update_project: a date string
\* that does not parse is replaced by today (start) or start + 30 (end)
build_create_project(form) ==
    LET start_date == IF form.project_start_date = None THEN today
                      ELSE Unwrap(form.project_start_date)
        end_date == IF form.project_end_date = None
                    THEN start_date + DefaultProjectSpan
                    ELSE Unwrap(form.project_end_date)
    IN [client_id |-> id_at(clients, form.project_client_idx),
        name |-> Some(form.project_name),
        start_date |-> start_date,
        planned_end_date |-> end_date,
        actual_end_date |-> None,
        manager_id |-> id_at(users, form.project_manager_idx)]

build_update_project(form) == build_create_project(form)

\* FormState::build_create_user
build_create_user(form) ==
    [name |-> Some(form.user_name), login |-> Some(form.user_login),
     password |-> Some(form.user_password), role |-> form.user_role]

\* FormState::build_update_user
build_update_user(form) ==
    [name |-> Some(form.user_name), login |-> Some(form.user_login),
     password |-> IF form.user_password = <<>> THEN None
                  ELSE Some(form.user_password),
     role |-> form.user_role]

\* CreateClientDto::validate / UpdateClientDto::validate: None is Ok(()),
\* Some(message) is Err(message)
validate_client(dto) ==
    IF is_blank(dto.name) THEN Some("Name is required") ELSE None

\* CreateProjectDto::validate / UpdateProjectDto::validate
validate_project(dto) ==
    CASE is_blank(dto.name) -> Some("Name is required")
      [] dto.client_id = NilId -> Some("Client is required")
      [] dto.manager_id = NilId -> Some("Manager is required")
      [] dto.planned_end_date < dto.start_date ->
            Some("End date must be after start date")
      [] OTHER -> None

\* CreateUserDto::validate
validate_create_user(dto) ==
    CASE is_blank(dto.name) -> Some("Name is required")
      [] is_blank(dto.login) -> Some("Login is required")
      [] dto.password = None \/ Unwrap(dto.password) = <<>> ->
            Some("Password is required")
      [] byte_len(Unwrap(dto.password)) < 4 ->
            Some("Password must be at least 4 characters")
      [] OTHER -> None

\* UpdateUserDto::validate
validate_update_user(dto) ==
    CASE is_blank(dto.name) -> Some("Name is required")
      [] is_blank(dto.login) -> Some("Login is required")
      [] /\ dto.password # None
         /\ Unwrap(dto.password) # <<>>
         /\ byte_len(Unwrap(dto.password)) < 4 ->
            Some("Password must be at least 4 characters")
      [] OTHER -> None

\* new_delete with Yes focused
new_delete_yes_focused(entity_type, entity_id) ==
    [entity_type |-> entity_type, entity_id |-> entity_id, yes_focused |-> TRUE]

\* ConfirmDialog::new_delete(entity_type, entity_id, name)
new_delete(entity_type, entity_id) ==
    [entity_type |-> entity_type, entity_id |-> entity_id, yes_focused |-> FALSE]

\* App::open_create_form: the form the handler builds
open_create_form ==
    CASE active_tab = "Clients" -> new_create_client
      [] active_tab = "Timeline" -> new_create_project
      [] active_tab = "Users" -> new_create_user

\* open_edit_form falling back to the last row when the index is past the end
open_edit_form_clamped ==
    IF selected_project # None /\ Len(projects) > 0
    THEN Some(new_edit_project(projects[Min(Unwrap(selected_project) + 1, Len(projects))]))
    ELSE None

\* App::open_edit_form: the form the handler builds, if any
open_edit_form ==
    CASE active_tab = "Clients" ->
            IF list_selected < Len(clients)
            THEN Some(new_edit_client(clients[list_selected + 1]))
            ELSE None
      [] active_tab = "Timeline" ->
            IF selected_project # None
            THEN IF Unwrap(selected_project) < Len(projects)
                 THEN Some(new_edit_project(projects[Unwrap(selected_project) + 1]))
                 ELSE None
            ELSE None
      [] active_tab = "Users" ->
            IF list_selected < Len(users)
            THEN Some(new_edit_user(users[list_selected + 1]))
            ELSE None

\* App::open_delete_confirm: the dialog the handler builds, if any
open_delete_confirm ==
    CASE active_tab = "Clients" ->
            IF list_selected < Len(clients)
            THEN Some(new_delete("Client", clients[list_selected + 1].id))
            ELSE None
      [] active_tab = "Timeline" ->
            IF selected_project # None
            THEN IF Unwrap(selected_project) < Len(projects)
                 THEN Some(new_delete("Project", projects[Unwrap(selected_project) + 1].id))
                 ELSE None
            ELSE None
      [] active_tab = "Users" ->
            IF list_selected < Len(users)
            THEN Some(new_delete("User", users[list_selected + 1].id))
            ELSE None

\* TimelineWidget::render: is the row of projects[index] drawn as selected
is_selected(index) == selected_project = Some(index)

\* the fields of the App a key handler may change, and the command it
\* returns (cmd: Option<ApiCommand>)
app_now ==
    [input_mode |-> input_mode, form_state |-> form_state,
     confirm_dialog |-> confirm_dialog, active_tab |-> active_tab,
     list_selected |-> list_selected, error_popup |-> error_popup,
     is_loading |-> is_loading, scroll_offset |-> scroll_offset,
     selected_project |-> selected_project,
     days_per_column |-> days_per_column, show_help |-> show_help,
     should_quit |-> should_quit, cmd |-> None]

\* App::close_form
close_form(a) == [a EXCEPT !.form_state = None, !.input_mode = "Normal"]

\* App::close_confirm
close_confirm(a) == [a EXCEPT !.confirm_dialog = None, !.input_mode = "Normal"]

\* handle_form_submit, focus on the Submit button: build the DTO of the
\* form's type, validate it, and either record the error in the form or
\* return the command; the form stays open in both cases
submit_form(a) ==
    LET form == Unwrap(a.form_state)
        result(err, cmd) ==
            IF err # None
            THEN [a EXCEPT !.form_state = Some([form EXCEPT !.error = err])]
            ELSE [a EXCEPT !.cmd = Some(cmd)]
    IN CASE form.form_type = "CreateClient" ->
              LET dto == build_create_client(form)
              IN result(validate_client(dto),
                        [cmd |-> "CreateClient", dto |-> dto])
         [] form.form_type = "EditClient" ->
              LET dto == build_update_client(form)
              IN result(validate_client(dto),
                        [cmd |-> "UpdateClient", id |-> form.editing, dto |-> dto])
         [] form.form_type = "CreateProject" ->
              LET dto == build_create_project(form)
              IN result(validate_project(dto),
                        [cmd |-> "CreateProject", dto |-> dto])
         [] form.form_type = "EditProject" ->
              LET dto == build_update_project(form)
              IN result(validate_project(dto),
                        [cmd |-> "UpdateProject", id |-> form.editing, dto |-> dto])
         [] form.form_type = "CreateUser" ->
              LET dto == build_create_user(form)
              IN result(validate_create_user(dto),
                        [cmd |-> "CreateUser", dto |-> dto])
         [] form.form_type = "EditUser" ->
              LET dto == build_update_user(form)
              IN result(validate_update_user(dto),
                        [cmd |-> "UpdateUser", id |-> form.editing, dto |-> dto])

\* App::handle_form_submit
handle_form_submit(a) ==
    IF a.form_state = None THEN a
    ELSE LET form == Unwrap(a.form_state)
             field == current_field(form)
         IN CASE field = "CancelButton" -> close_form(a)
              [] is_text_input(field) \/ is_date_picker(field) ->
                    [a EXCEPT !.form_state = Some(next_field(form))]
              [] field # "SubmitButton" -> a
              [] OTHER -> submit_form(a)

\* the keys whose KeyCode is not Char: every other key is a KeyCode::Char(c)
NamedKeys == {"Esc", "Tab", "BackTab", "Enter", "Backspace", "Delete", "Home",
              "Up", "Down", "Left", "Right"}

\* KeyCode::Char(c) of a key: the char c.  "Ctrl-c" is Char('c') with
\* KeyModifiers::CONTROL, every other char key is named by its char
key_char(key) == IF key = "Ctrl-c" THEN "c" ELSE key

\* App::handle_editing_key
handle_editing_key(a, key) ==
    IF a.form_state = None THEN [a EXCEPT !.input_mode = "Normal"]
    ELSE LET form == Unwrap(a.form_state)
             field == current_field(form)
             with(f) == [a EXCEPT !.form_state = Some(f)]
         IN CASE key = "Esc" -> close_form(a)
              [] key = "Tab" -> with(next_field(form))
              [] key = "BackTab" -> with(prev_field(form))
              [] key = "Enter" -> handle_form_submit(a)
              [] key = "Backspace" -> with(handle_backspace(form))
              [] key = "Up" ->
                    IF is_date_picker(field) THEN with(increment_date(form))
                    ELSE CASE field = "ProjectClient" ->
                                with([form EXCEPT !.project_client_idx =
                                        IF @ > 0 THEN @ - 1 ELSE @])
                           [] field = "ProjectManager" ->
                                with([form EXCEPT !.project_manager_idx =
                                        IF @ > 0 THEN @ - 1 ELSE @])
                           [] field = "UserRole" ->
                                with([form EXCEPT !.user_role = role_next(@)])
                           [] OTHER -> a
              [] key = "Down" ->
                    IF is_date_picker(field) THEN with(decrement_date(form))
                    ELSE CASE field = "ProjectClient" ->
                                with([form EXCEPT !.project_client_idx =
                                        IF @ < Max(Len(clients) - 1, 0)
                                        THEN @ + 1 ELSE @])
                           [] field = "ProjectManager" ->
                                with([form EXCEPT !.project_manager_idx =
                                        IF @ < Max(Len(users) - 1, 0)
                                        THEN @ + 1 ELSE @])
                           [] field = "UserRole" ->
                                with([form EXCEPT !.user_role = role_next(@)])
                           [] OTHER -> a
              [] key = "Left" ->
                    IF is_date_picker(field) THEN with(step_date(form, -1, 7))
                    ELSE a
              [] key = "Right" ->
                    IF is_date_picker(field) THEN with(step_date(form, 1, 7))
                    ELSE a
              [] key \notin NamedKeys -> with(handle_char(form, key_char(key)))
              [] OTHER -> a

\* the Delete command of a dialog's entity
delete_command(dialog) ==
    CASE dialog.entity_type = "Client" ->
            [cmd |-> "DeleteClient", id |-> dialog.entity_id]
      [] dialog.entity_type = "Project" ->
            [cmd |-> "DeleteProject", id |-> dialog.entity_id]
      [] dialog.entity_type = "User" ->
            [cmd |-> "DeleteUser", id |-> dialog.entity_id]

\* App::handle_confirming_key
handle_confirming_key(a, key) ==
    IF a.confirm_dialog = None THEN [a EXCEPT !.input_mode = "Normal"]
    ELSE LET dialog == Unwrap(a.confirm_dialog)
         IN CASE key \in {"Esc", "n", "N"} -> close_confirm(a)
              [] key \in {"Left", "Right", "Tab"} ->
                    [a EXCEPT !.confirm_dialog =
                        Some([dialog EXCEPT !.yes_focused = ~dialog.yes_focused])]
              [] key = "Enter" ->
                    IF dialog.yes_focused
                    THEN [a EXCEPT !.cmd = Some(delete_command(dialog))]
                    ELSE close_confirm(a)
              [] key \in {"y", "Y"} ->
                    [a EXCEPT !.cmd = Some(delete_command(dialog))]
              [] OTHER -> a

\* App::handle_timeline_key (without SHIFT)
handle_timeline_key(a, key) ==
    CASE key \in {"h", "Left"} -> [a EXCEPT !.scroll_offset = scroll_left(1)]
      [] key \in {"l", "Right"} -> [a EXCEPT !.scroll_offset = scroll_right(1)]
      [] key \in {"j", "Down"} ->
            [a EXCEPT !.selected_project = select_next(Len(projects)),
                      !.scroll_offset =
                          jump_to_selected_project(select_next(Len(projects)))]
      [] key \in {"k", "Up"} ->
            [a EXCEPT !.selected_project = select_previous(Len(projects)),
                      !.scroll_offset =
                          jump_to_selected_project(select_previous(Len(projects)))]
      [] key = "Enter" ->
            [a EXCEPT !.scroll_offset = jump_to_selected_project(selected_project)]
      [] key \in {"+", "="} -> [a EXCEPT !.days_per_column = zoom_in]
      [] key = "-" -> [a EXCEPT !.days_per_column = zoom_out]
      [] key = "t" -> [a EXCEPT !.scroll_offset = center_on_today(TodayViewportWidth)]
      [] key = "Home" -> [a EXCEPT !.scroll_offset = 0]
      [] OTHER -> a

\* App::handle_list_key
handle_list_key(a, key, total) ==
    IF total = 0 THEN a
    ELSE CASE key \in {"j", "Down"} ->
                [a EXCEPT !.list_selected = (a.list_selected + 1) % total]
           [] key \in {"k", "Up"} ->
                [a EXCEPT !.list_selected =
                    IF a.list_selected = 0 THEN total - 1 ELSE a.list_selected - 1]
           [] key = "g" -> [a EXCEPT !.list_selected = 0]
           [] key = "G" -> [a EXCEPT !.list_selected = total - 1]
           [] OTHER -> a

\* App::handle_normal_key
handle_normal_key(a, key) ==
    CASE key \in {"q", "Q", "Ctrl-c"} ->
            [a EXCEPT !.should_quit = TRUE, !.cmd = Some([cmd |-> "Shutdown"])]
      [] key = "?" -> [a EXCEPT !.show_help = TRUE]
      [] key = "p" -> a
      [] key = "r" ->
            [a EXCEPT !.is_loading = TRUE, !.cmd = Some([cmd |-> "RefreshAll"])]
      [] key = "Tab" ->
            [a EXCEPT !.active_tab = tab_next(a.active_tab), !.list_selected = 0]
      [] key = "BackTab" ->
            [a EXCEPT !.active_tab = tab_previous(a.active_tab), !.list_selected = 0]
      [] key = "c" ->
            [a EXCEPT !.form_state = Some(open_create_form), !.input_mode = "Editing"]
      [] key = "e" ->
            IF open_edit_form # None
            THEN [a EXCEPT !.form_state = open_edit_form, !.input_mode = "Editing"]
            ELSE a
      [] key \in {"d", "Delete"} ->
            IF open_delete_confirm # None
            THEN [a EXCEPT !.confirm_dialog = open_delete_confirm,
                           !.input_mode = "Confirming"]
            ELSE a
      [] OTHER ->
            CASE a.active_tab = "Timeline" -> handle_timeline_key(a, key)
              [] a.active_tab = "Clients" -> handle_list_key(a, key, Len(clients))
              [] a.active_tab = "Users" -> handle_list_key(a, key, Len(users))

\* handle_key letting a key that does not dismiss the popup through
handle_key_popup_transparent(a, key) ==
    IF a.error_popup # None /\ key \in {"Esc", "Enter", " "}
    THEN [a EXCEPT !.error_popup = None]
    ELSE IF a.show_help
    THEN IF key \in {"Esc", "?", "Enter"}
         THEN [a EXCEPT !.show_help = FALSE]
         ELSE a
    ELSE CASE a.input_mode = "Normal" -> handle_normal_key(a, key)
           [] a.input_mode = "Editing" -> handle_editing_key(a, key)
           [] a.input_mode = "Confirming" -> handle_confirming_key(a, key)

\* App::handle_key: the App after the key and the command returned
handle_key(a, key) ==
    IF a.error_popup # None
    THEN IF key \in {"Esc", "Enter", " "}
         THEN [a EXCEPT !.error_popup = None]
         ELSE a
    ELSE IF a.show_help
    THEN IF key \in {"Esc", "?", "Enter"}
         THEN [a EXCEPT !.show_help = FALSE]
         ELSE a
    ELSE CASE a.input_mode = "Normal" -> handle_normal_key(a, key)
           [] a.input_mode = "Editing" -> handle_editing_key(a, key)
           [] a.input_mode = "Confirming" -> handle_confirming_key(a, key)

\* App::handle_key(key) on the App's fields; last_cmd keeps the command it
\* returned to its caller
KeyHandled(key) ==
    LET a == handle_key(app_now, key)
    IN /\ input_mode' = a.input_mode
       /\ form_state' = a.form_state
       /\ confirm_dialog' = a.confirm_dialog
       /\ active_tab' = a.active_tab
       /\ list_selected' = a.list_selected
       /\ error_popup' = a.error_popup
       /\ is_loading' = a.is_loading
       /\ scroll_offset' = a.scroll_offset
       /\ selected_project' = a.selected_project
       /\ days_per_column' = a.days_per_column
       /\ show_help' = a.show_help
       /\ should_quit' = a.should_quit
       /\ last_cmd' = a.cmd
       /\ UNCHANGED <<projects, clients, users, today>>

\* App::new: the modal state
InitModal ==
    /\ input_mode = "Normal"
    /\ form_state = None
    /\ confirm_dialog = None
    /\ active_tab = "Timeline"
    /\ clients = <<>>
    /\ users = <<>>
    /\ list_selected = 0
    /\ error_popup = None
    /\ last_cmd = None
    /\ show_help = FALSE
    /\ should_quit = FALSE

\* the channels and tasks left out of the picture: the App is driven by its
\* handlers alone
InitIdleLoop ==
    /\ cmd_queue = <<>>
    /\ msg_queue = <<>>
    /\ ui_pc = "idle"
    /\ ui_pending = <<>>
    /\ worker_pending = <<>>
    /\ worker_cmd = None
    /\ worker_pc = "run"
    /\ key_script = <<>>

Init ==
    /\ projects = <<>>
    /\ scroll_offset = 0
    /\ selected_project = None
    /\ days_per_column = DefaultZoom
    /\ is_loading = TRUE
    /\ today \in Todays
    /\ last_key = "none"
    /\ InitModal
    /\ InitIdleLoop
    /\ role_arg = IntVal(0)
    /\ role_res = <<>>
    /\ sel_total = 0
    /\ sel_start = None
    /\ sel_calls = <<>>
    /\ animation_frame = ZeroFrame

\* handle_api_message(ApiMessage::ProjectsLoaded(ps))
ProjectsLoaded(ps) ==
    /\ projects' = ps
    /\ is_loading' = FALSE
    /\ IF Len(ps) # 0
       THEN /\ selected_project' = IF selected_project = None THEN Some(0)
                                   ELSE selected_project
            /\ scroll_offset' = auto_center_timeline(ps, scroll_offset)
       ELSE UNCHANGED <<selected_project, scroll_offset>>
    /\ last_key' = "ProjectsLoaded"
    /\ UNCHANGED <<days_per_column, today, modal_vars, loop_vars, caller_vars>>

\* handle_timeline_key: 'h' | Left, amount 7 with SHIFT
KeyH(amount) ==
    /\ input_mode = "Normal"
    /\ scroll_offset \in (amount - MaxScrollLeft)..MaxScroll
    /\ scroll_offset' = scroll_left(amount)
    /\ last_key' = "h"
    /\ UNCHANGED <<projects, selected_project, days_per_column, is_loading, today, modal_vars, loop_vars, caller_vars>>

\* handle_timeline_key: 'l' | Right, amount 7 with SHIFT
KeyL(amount) ==
    /\ input_mode = "Normal"
    /\ scroll_offset \in (-MaxScrollLeft)..(MaxScroll - amount)
    /\ scroll_offset' = scroll_right(amount)
    /\ last_key' = "l"
    /\ UNCHANGED <<projects, selected_project, days_per_column, is_loading, today, modal_vars, loop_vars, caller_vars>>

\* handle_timeline_key: 'j' | Down
KeyJ ==
    /\ input_mode = "Normal"
    /\ selected_project' = select_next(Len(projects))
    /\ scroll_offset' = jump_to_selected_project(select_next(Len(projects)))
    /\ last_key' = "j"
    /\ UNCHANGED <<projects, days_per_column, is_loading, today, modal_vars, loop_vars, caller_vars>>

\* handle_timeline_key: 'k' | Up
KeyK ==
    /\ input_mode = "Normal"
    /\ selected_project' = select_previous(Len(projects))
    /\ scroll_offset' = jump_to_selected_project(select_previous(Len(projects)))
    /\ last_key' = "k"
    /\ UNCHANGED <<projects, days_per_column, is_loading, today, modal_vars, loop_vars, caller_vars>>

\* handle_timeline_key: Enter
KeyEnter ==
    /\ input_mode = "Normal"
    /\ scroll_offset' = jump_to_selected_project(selected_project)
    /\ last_key' = "Enter"
    /\ UNCHANGED <<projects, selected_project, days_per_column, is_loading, today, modal_vars, loop_vars, caller_vars>>

\* handle_timeline_key: '+' | '='
KeyPlus ==
    /\ input_mode = "Normal"
    /\ days_per_column' = zoom_in
    /\ last_key' = "+"
    /\ UNCHANGED <<projects, scroll_offset, selected_project, is_loading, today, modal_vars, loop_vars, caller_vars>>

\* handle_timeline_key: '-'
KeyMinus ==
    /\ input_mode = "Normal"
    /\ days_per_column' = zoom_out
    /\ last_key' = "-"
    /\ UNCHANGED <<projects, scroll_offset, selected_project, is_loading, today, modal_vars, loop_vars, caller_vars>>

\* handle_timeline_key: 't'
KeyT ==
    /\ input_mode = "Normal"
    /\ scroll_offset' = center_on_today(TodayViewportWidth)
    /\ last_key' = "t"
    /\ UNCHANGED <<projects, selected_project, days_per_column, is_loading, today, modal_vars, loop_vars, caller_vars>>

\* handle_timeline_key: Home
KeyHome ==
    /\ input_mode = "Normal"
    /\ scroll_offset' = 0
    /\ last_key' = "Home"
    /\ UNCHANGED <<projects, selected_project, days_per_column, is_loading, today, modal_vars, loop_vars, caller_vars>>

Next ==
    \/ \E ps \in ProjectLists : ProjectsLoaded(ps)
    \/ \E amount \in {1, 7} : KeyH(amount)
    \/ \E amount \in {1, 7} : KeyL(amount)
    \/ KeyJ
    \/ KeyK
    \/ KeyEnter
    \/ KeyPlus
    \/ KeyMinus
    \/ KeyT
    \/ KeyHome

Spec == Init /\ [][Next]_vars

----------------------------------------------------------------------------
(* The bar layout under the keys that move and scale the viewport, for     *)
(* project lists that include a one-day project and an invalid span.       *)

NextLayout ==
    \/ \E ps \in LayoutLists : ProjectsLoaded(ps)
    \/ \E amount \in {1, 7} : KeyH(amount)
    \/ \E amount \in {1, 7} : KeyL(amount)
    \/ KeyPlus
    \/ KeyMinus

SpecLayout == Init /\ [][NextLayout]_vars

----------------------------------------------------------------------------
(* The layout ten days after the epoch: a running project and one whose    *)
(* planned end has passed.                                                 *)

ScenarioToday == 10

ProjectA == Project(5, 20, None)
ProjectB == Project(0, 8, None)

ScenarioLists == SeqsUpTo({ProjectA, ProjectB}, 2)

InitScenario ==
    /\ projects = <<>>
    /\ scroll_offset = 0
    /\ selected_project = None
    /\ days_per_column = DefaultZoom
    /\ is_loading = TRUE
    /\ today = ScenarioToday
    /\ last_key = "none"
    /\ InitModal
    /\ InitIdleLoop
    /\ role_arg = IntVal(0)
    /\ role_res = <<>>
    /\ sel_total = 0
    /\ sel_start = None
    /\ sel_calls = <<>>
    /\ animation_frame = ZeroFrame

NextScenario ==
    \/ \E ps \in ScenarioLists : ProjectsLoaded(ps)
    \/ \E amount \in {1, 7} : KeyH(amount)
    \/ \E amount \in {1, 7} : KeyL(amount)
    \/ KeyPlus
    \/ KeyMinus

SpecScenario == InitScenario /\ [][NextScenario]_vars

----------------------------------------------------------------------------
(* The modal keys of the App on the timeline tab: 'e' and 'd' open the     *)
(* edit form and the delete confirmation for the selected project, Esc     *)
(* closes them.  ProjectsLoaded arrives in every input mode.               *)

\* handle_normal_key: 'e'
KeyE ==
    /\ input_mode = "Normal"
    /\ LET form == open_edit_form
       IN IF form # None
          THEN form_state' = form /\ input_mode' = "Editing"
          ELSE UNCHANGED <<form_state, input_mode>>
    /\ last_key' = "e"
    /\ UNCHANGED <<projects, scroll_offset, selected_project, days_per_column,
                   is_loading, today, confirm_dialog, active_tab, clients, users,
                   list_selected, error_popup, last_cmd, show_help,
                   should_quit, loop_vars, caller_vars>>

\* handle_normal_key: 'd' | Delete
KeyD ==
    /\ input_mode = "Normal"
    /\ LET dialog == open_delete_confirm
       IN IF dialog # None
          THEN confirm_dialog' = dialog /\ input_mode' = "Confirming"
          ELSE UNCHANGED <<confirm_dialog, input_mode>>
    /\ last_key' = "d"
    /\ UNCHANGED <<projects, scroll_offset, selected_project, days_per_column,
                   is_loading, today, form_state, active_tab, clients, users,
                   list_selected, error_popup, last_cmd, show_help,
                   should_quit, loop_vars, caller_vars>>

\* handle_key: Esc.  It dismisses the error popup, else closes the help
\* overlay, else goes by the mode: Normal has no binding for it, Editing
\* closes the form, Confirming closes the dialog.
KeyEsc ==
    /\ KeyHandled("Esc")
    /\ last_key' = "Esc"
    /\ UNCHANGED <<loop_vars, caller_vars>>

NextStale ==
    \/ \E ps \in ProjectLists : ProjectsLoaded(ps)
    \/ KeyJ
    \/ KeyK
    \/ KeyEnter
    \/ KeyE
    \/ KeyD
    \/ KeyEsc

SpecStale == Init /\ [][NextStale]_vars

----------------------------------------------------------------------------
(* The create and edit forms: the lists arrive, 'c' and 'e' open a form on *)
(* the active tab, and the keys of the Editing mode fill and submit it.    *)

\* handle_api_message(ApiMessage::ClientsLoaded(cs))
ClientsLoaded(cs) ==
    /\ clients' = cs
    /\ last_key' = "ClientsLoaded"
    /\ UNCHANGED <<projects, scroll_offset, selected_project, days_per_column,
                   is_loading, today, input_mode, form_state, confirm_dialog,
                   active_tab, users, list_selected, error_popup, last_cmd, show_help,
                   should_quit,
                   loop_vars, caller_vars>>

\* handle_api_message(ApiMessage::UsersLoaded(us))
UsersLoaded(us) ==
    /\ users' = us
    /\ last_key' = "UsersLoaded"
    /\ UNCHANGED <<projects, scroll_offset, selected_project, days_per_column,
                   is_loading, today, input_mode, form_state, confirm_dialog,
                   active_tab, clients, list_selected, error_popup, last_cmd, show_help,
                   should_quit,
                   loop_vars, caller_vars>>

\* the lists the backend returns while forms are filled: one project of two
\* days starting today, one client, one user
FormProjectLists == { <<Project(t, t + 2, None)>> : t \in Todays }
FormClientLists == { <<Client(1)>> }
FormUserLists == { <<User(1)>> }

\* the keys pressed: in Normal mode those that change the tab or open a
\* form, in Editing mode the keys of the form, the chars typed being the
\* blank and the two-byte letter
FormNormalKeys == {"Tab", "BackTab", "c", "e"}
FormEditingKeys ==
    {" ", "é", "Esc", "Tab", "BackTab", "Enter", "Backspace", "Up", "Down",
     "Left", "Right"}

\* the keys pressed on the timeline tab: those that open a project form and
\* those that fill it
ProjectFormNormalKeys == {"c", "e"}
ProjectFormEditingKeys ==
    {"é", "Esc", "Tab", "BackTab", "Enter", "Backspace", "Up", "Down", "Left",
     "Right"}

\* the days a date picker may be moved to
FormDates == (today - MaxDateShift)..(today + MaxDateShift)

\* the form's texts and dates are within the bounds of the model
form_in_bounds(form) ==
    /\ \A text \in {form.client_name, form.client_address, form.project_name,
                     form.user_name, form.user_login, form.user_password} :
          Len(text) <= MaxText
    /\ \A date \in {form.project_start_date, form.project_end_date} :
          IF date = None THEN TRUE
          ELSE Unwrap(date) \in FormDates \cup {today + DefaultProjectSpan}

\* handle_key(key) with the form open or about to be opened
FormKey(key) ==
    /\ error_popup = None
    /\ ~should_quit
    /\ KeyHandled(key)
    /\ IF form_state' = None THEN TRUE ELSE form_in_bounds(Unwrap(form_state'))
    /\ UNCHANGED <<last_key, loop_vars, caller_vars>>

\* the create forms of the three tabs, no list loaded
NextForm ==
    \E key \in (IF input_mode = "Normal" THEN FormNormalKeys
                ELSE FormEditingKeys) : FormKey(key)

SpecForm == Init /\ [][NextForm]_vars

\* the create and edit forms of the timeline tab, the lists arriving
NextProjectForm ==
    \/ \E ps \in FormProjectLists : ProjectsLoaded(ps)
    \/ \E cs \in FormClientLists : ClientsLoaded(cs)
    \/ \E us \in FormUserLists : UsersLoaded(us)
    \/ \E key \in (IF input_mode = "Normal" THEN ProjectFormNormalKeys
                   ELSE ProjectFormEditingKeys) : FormKey(key)

SpecProjectForm == Init /\ [][NextProjectForm]_vars

----------------------------------------------------------------------------
(* main.rs: run_event_loop and run_api_worker, two tasks joined by two     *)
(* bounded channels.  The event loop ticks, drains the message channel     *)
(* (sending refresh commands after a mutation), then handles at most one   *)
(* key and sends the command it returns; the worker takes one command at a *)
(* time, awaits its HTTP calls and sends the results.  A send into a full  *)
(* channel waits.                                                          *)

\* mpsc::channel(32), both channels
ChannelCapacity == 32

\* ApiMessage
ProjectsLoadedMsg(data) == [msg |-> "ProjectsLoaded", data |-> data]
ClientsLoadedMsg(data) == [msg |-> "ClientsLoaded", data |-> data]
UsersLoadedMsg(data) == [msg |-> "UsersLoaded", data |-> data]
ErrorMsg == [msg |-> "Error"]
ConnectionStatusMsg(connected) == [msg |-> "ConnectionStatus", connected |-> connected]
CreatedMsg(entity_type) == [msg |-> "Created", entity_type |-> entity_type]
UpdatedMsg(entity_type) == [msg |-> "Updated", entity_type |-> entity_type]
DeletedMsg(entity_type) == [msg |-> "Deleted", entity_type |-> entity_type]

\* how the HTTP calls of one command end: the health check, the three
\* fetches, and a create, update or delete
HttpOutcomes ==
    [connected : BOOLEAN, projects : BOOLEAN, clients : BOOLEAN,
     users : BOOLEAN, crud : BOOLEAN]
AllOk ==
    [connected |-> TRUE, projects |-> TRUE, clients |-> TRUE, users |-> TRUE,
     crud |-> TRUE]
AllFailed ==
    [connected |-> FALSE, projects |-> FALSE, clients |-> FALSE,
     users |-> FALSE, crud |-> FALSE]

\* what the backend holds: one project of two days starting today, one
\* client, one user
server_projects == <<Project(today, today + 2, None)>>
server_clients == <<Client(1)>>
server_users == <<User(1)>>

\* the EntityType a create, update or delete command is about
entity_type_of(cmd) ==
    CASE cmd.cmd \in {"CreateClient", "UpdateClient", "DeleteClient"} -> "Client"
      [] cmd.cmd \in {"CreateProject", "UpdateProject", "DeleteProject"} -> "Project"
      [] cmd.cmd \in {"CreateUser", "UpdateUser", "DeleteUser"} -> "User"

\* run_api_worker, RefreshAll: the messages it sends once health_check has
\* returned
health_responses(outcome) ==
    IF outcome.connected THEN << ConnectionStatusMsg(TRUE) >>
    ELSE << ConnectionStatusMsg(FALSE), ErrorMsg >>

\* run_api_worker, RefreshAll: the messages it sends once the three fetches
\* it joins have returned
fetch_responses(outcome) ==
    << IF outcome.projects THEN ProjectsLoadedMsg(server_projects) ELSE ErrorMsg,
       IF outcome.clients THEN ClientsLoadedMsg(server_clients) ELSE ErrorMsg,
       IF outcome.users THEN UsersLoadedMsg(server_users) ELSE ErrorMsg >>

\* run_api_worker: the messages it sends for a command, in order
responses(cmd, outcome) ==
    CASE cmd.cmd = "RefreshAll" ->
            IF outcome.connected
            THEN health_responses(outcome) \o fetch_responses(outcome)
            ELSE health_responses(outcome)
      [] cmd.cmd = "CheckConnection" ->
            << ConnectionStatusMsg(outcome.connected) >>
      [] cmd.cmd = "Shutdown" -> <<>>
      [] cmd.cmd = "RefreshProjects" ->
            << IF outcome.projects THEN ProjectsLoadedMsg(server_projects)
               ELSE ErrorMsg >>
      [] cmd.cmd = "RefreshClients" ->
            << IF outcome.clients THEN ClientsLoadedMsg(server_clients)
               ELSE ErrorMsg >>
      [] cmd.cmd = "RefreshUsers" ->
            << IF outcome.users THEN UsersLoadedMsg(server_users)
               ELSE ErrorMsg >>
      [] cmd.cmd \in {"CreateClient", "CreateProject", "CreateUser"} ->
            << IF outcome.crud THEN CreatedMsg(entity_type_of(cmd)) ELSE ErrorMsg >>
      [] cmd.cmd \in {"UpdateClient", "UpdateProject", "UpdateUser"} ->
            << IF outcome.crud THEN UpdatedMsg(entity_type_of(cmd)) ELSE ErrorMsg >>
      [] cmd.cmd \in {"DeleteClient", "DeleteProject", "DeleteUser"} ->
            << IF outcome.crud THEN DeletedMsg(entity_type_of(cmd)) ELSE ErrorMsg >>

\* run_event_loop: the refresh commands sent after a message is handled
refresh_commands(msg) ==
    IF msg.msg \in {"Created", "Updated", "Deleted"}
    THEN CASE msg.entity_type = "Client" ->
                << [cmd |-> "RefreshClients"], [cmd |-> "RefreshProjects"] >>
           [] msg.entity_type = "Project" ->
                << [cmd |-> "RefreshProjects"] >>
           [] msg.entity_type = "User" ->
                << [cmd |-> "RefreshUsers"], [cmd |-> "RefreshProjects"] >>
    ELSE <<>>

\* App::handle_api_message on the App's fields
MessageHandled(msg) ==
    CASE msg.msg = "ProjectsLoaded" ->
            /\ projects' = msg.data
            /\ is_loading' = FALSE
            /\ IF Len(msg.data) # 0
               THEN /\ selected_project' =
                          IF selected_project = None THEN Some(0)
                          ELSE selected_project
                    /\ scroll_offset' = auto_center_timeline(msg.data, scroll_offset)
               ELSE UNCHANGED <<selected_project, scroll_offset>>
            /\ UNCHANGED <<days_per_column, today, modal_vars>>
      [] msg.msg = "ClientsLoaded" ->
            /\ clients' = msg.data
            /\ UNCHANGED <<projects, scroll_offset, selected_project,
                           days_per_column, is_loading, today, input_mode,
                           form_state, confirm_dialog, active_tab, users,
                           list_selected, error_popup, last_cmd, show_help, should_quit>>
      [] msg.msg = "UsersLoaded" ->
            /\ users' = msg.data
            /\ UNCHANGED <<projects, scroll_offset, selected_project,
                           days_per_column, is_loading, today, input_mode,
                           form_state, confirm_dialog, active_tab, clients,
                           list_selected, error_popup, last_cmd, show_help, should_quit>>
      [] msg.msg = "Error" ->
            /\ is_loading' = FALSE
            /\ error_popup' = Some("API Error")
            /\ UNCHANGED <<projects, scroll_offset, selected_project,
                           days_per_column, today, input_mode, form_state,
                           confirm_dialog, active_tab, clients, users,
                           list_selected, last_cmd, show_help, should_quit>>
      [] msg.msg = "ConnectionStatus" ->
            UNCHANGED <<projects, scroll_offset, selected_project,
                        days_per_column, is_loading, today, modal_vars>>
      [] msg.msg \in {"Created", "Updated"} ->
            /\ form_state' = None
            /\ input_mode' = "Normal"
            /\ UNCHANGED <<projects, scroll_offset, selected_project,
                           days_per_column, is_loading, today, confirm_dialog,
                           active_tab, clients, users, list_selected,
                           error_popup, last_cmd, show_help, should_quit>>
      [] msg.msg = "Deleted" ->
            /\ confirm_dialog' = None
            /\ input_mode' = "Normal"
            /\ UNCHANGED <<projects, scroll_offset, selected_project,
                           days_per_column, is_loading, today, form_state,
                           active_tab, clients, users, list_selected,
                           error_popup, last_cmd, show_help, should_quit>>

\* the frame counts fewer than limit ticks
frame_below(frame, limit) ==
    /\ \A i \in 2..LimbCount : frame[i] = 0
    /\ frame[1] < limit

\* run_event_loop: app.tick, which ticks the timeline state and drops an
\* error popup shown for more than five seconds, and the draw
TickAndDraw ==
    /\ ui_pc = "tick"
    /\ ~should_quit
    /\ animation_frame' = tick(animation_frame)
    /\ error_popup' \in {None, error_popup}
    /\ ui_pc' = "drain"
    /\ UNCHANGED <<projects, scroll_offset, selected_project, days_per_column,
                   is_loading, today, last_key, input_mode, form_state,
                   confirm_dialog, active_tab, clients, users, list_selected,
                   last_cmd, show_help, should_quit, cmd_queue, msg_queue,
                   ui_pending, worker_pending, worker_cmd, worker_pc,
                   key_script, call_vars>>

\* a pass of the loop starts; the passes are followed while the frame is
\* below MaxLoopTicks
UiTick == frame_below(animation_frame, MaxLoopTicks) /\ TickAndDraw

\* run_event_loop: api_rx.try_recv() returns a message, which is handled
UiRecv ==
    /\ ui_pc = "drain"
    /\ ui_pending = <<>>
    /\ msg_queue # <<>>
    /\ MessageHandled(Head(msg_queue))
    /\ msg_queue' = Tail(msg_queue)
    /\ ui_pending' = refresh_commands(Head(msg_queue))
    /\ UNCHANGED <<last_key, cmd_queue, ui_pc, worker_pending, worker_cmd,
                   worker_pc, key_script, caller_vars>>

\* run_event_loop: cmd_tx.send(cmd).await, which completes once the command
\* channel has room, or at once with an error, the command dropped, when
\* the worker has ended and the channel is closed; after the key's command
\* the loop starts over
UiSend ==
    /\ ui_pending # <<>>
    /\ IF worker_pc = "ended"
       THEN cmd_queue' = cmd_queue
       ELSE /\ Len(cmd_queue) < ChannelCapacity
            /\ cmd_queue' = Append(cmd_queue, Head(ui_pending))
    /\ ui_pending' = Tail(ui_pending)
    /\ ui_pc' = IF ui_pc = "keys" THEN "tick" ELSE ui_pc
    /\ UNCHANGED <<projects, scroll_offset, selected_project, days_per_column,
                   is_loading, today, last_key, modal_vars, msg_queue,
                   worker_pending, worker_cmd, worker_pc, key_script,
                   caller_vars>>

\* run_event_loop: api_rx.try_recv() finds the channel empty
UiDrained ==
    /\ ui_pc = "drain"
    /\ ui_pending = <<>>
    /\ msg_queue = <<>>
    /\ ui_pc' = "keys"
    /\ UNCHANGED <<projects, scroll_offset, selected_project, days_per_column,
                   is_loading, today, last_key, modal_vars, cmd_queue,
                   msg_queue, ui_pending, worker_pending, worker_cmd,
                   worker_pc, key_script, caller_vars>>

\* run_event_loop: event::poll finds the user's next key, which is handled
UiKey ==
    /\ ui_pc = "keys"
    /\ ui_pending = <<>>
    /\ key_script # <<>>
    /\ KeyHandled(Head(key_script))
    /\ key_script' = Tail(key_script)
    /\ ui_pending' = IF last_cmd' = None THEN <<>> ELSE <<Unwrap(last_cmd')>>
    /\ ui_pc' = IF last_cmd' = None THEN "tick" ELSE "keys"
    /\ UNCHANGED <<last_key, cmd_queue, msg_queue, worker_pending, worker_cmd,
                   worker_pc, caller_vars>>

\* run_event_loop: event::poll times out
UiNoKey ==
    /\ ui_pc = "keys"
    /\ ui_pending = <<>>
    /\ ui_pc' = "tick"
    /\ UNCHANGED <<projects, scroll_offset, selected_project, days_per_column,
                   is_loading, today, last_key, modal_vars, cmd_queue,
                   msg_queue, ui_pending, worker_pending, worker_cmd,
                   worker_pc, key_script, caller_vars>>

\* run_tui: the event loop has returned on should_quit, and api_task.abort()
\* ends the worker where it waits
ApiTaskAbort ==
    /\ should_quit
    /\ ui_pc = "tick"
    /\ worker_pc # "ended"
    /\ worker_pc' = "ended"
    /\ UNCHANGED <<projects, scroll_offset, selected_project, days_per_column,
                   is_loading, today, last_key, modal_vars, cmd_queue,
                   msg_queue, ui_pc, ui_pending, worker_pending, worker_cmd,
                   key_script, caller_vars>>

\* run_api_worker: rx.recv() returns the next command; on Shutdown the loop
\* breaks and the task ends
WorkerRecv ==
    /\ worker_pc = "run"
    /\ worker_cmd = None
    /\ worker_pending = <<>>
    /\ cmd_queue # <<>>
    /\ cmd_queue' = Tail(cmd_queue)
    /\ IF Head(cmd_queue).cmd = "Shutdown"
       THEN /\ worker_pc' = "ended"
            /\ worker_cmd' = None
       ELSE /\ worker_pc' = "run"
            /\ worker_cmd' = Some(Head(cmd_queue))
    /\ UNCHANGED <<projects, scroll_offset, selected_project, days_per_column,
                   is_loading, today, last_key, modal_vars, msg_queue, ui_pc,
                   ui_pending, worker_pending, key_script, caller_vars>>

\* run_api_worker: the HTTP call the worker awaits returns.  For RefreshAll
\* that is health_check first and, once ConnectionStatus is sent and the
\* backend is connected, the three fetches joined; for every other command
\* its one call
WorkerHttp(outcome) ==
    /\ worker_pc # "ended"
    /\ worker_cmd # None
    /\ worker_pending = <<>>
    /\ IF Unwrap(worker_cmd).cmd = "RefreshAll" /\ worker_pc = "run"
       THEN /\ worker_pending' = health_responses(outcome)
            /\ worker_pc' = IF outcome.connected THEN "fetch" ELSE "run"
            /\ worker_cmd' = IF outcome.connected THEN worker_cmd ELSE None
       ELSE IF Unwrap(worker_cmd).cmd = "RefreshAll"
       THEN /\ worker_pending' = fetch_responses(outcome)
            /\ worker_pc' = "run"
            /\ worker_cmd' = None
       ELSE /\ worker_pending' = responses(Unwrap(worker_cmd), outcome)
            /\ worker_pc' = worker_pc
            /\ worker_cmd' = None
    /\ UNCHANGED <<projects, scroll_offset, selected_project, days_per_column,
                   is_loading, today, last_key, modal_vars, cmd_queue,
                   msg_queue, ui_pc, ui_pending, key_script, caller_vars>>

\* run_api_worker: tx.send(message).await, which completes once the message
\* channel has room
WorkerSend ==
    /\ worker_pc # "ended"
    /\ worker_pending # <<>>
    /\ Len(msg_queue) < ChannelCapacity
    /\ msg_queue' = Append(msg_queue, Head(worker_pending))
    /\ worker_pending' = Tail(worker_pending)
    /\ UNCHANGED <<projects, scroll_offset, selected_project, days_per_column,
                   is_loading, today, last_key, modal_vars, cmd_queue, ui_pc,
                   ui_pending, worker_cmd, worker_pc, key_script, caller_vars>>

\* run_tui: the channels are created, the worker is spawned, RefreshAll is
\* sent, then the App is built and the event loop entered
InitLoop(scripts) ==
    /\ projects = <<>>
    /\ scroll_offset = 0
    /\ selected_project = None
    /\ days_per_column = DefaultZoom
    /\ is_loading = TRUE
    /\ today \in Todays
    /\ last_key = "none"
    /\ InitModal
    /\ cmd_queue = << [cmd |-> "RefreshAll"] >>
    /\ msg_queue = <<>>
    /\ ui_pc = "tick"
    /\ ui_pending = <<>>
    /\ worker_pending = <<>>
    /\ worker_cmd = None
    /\ worker_pc = "run"
    /\ key_script \in scripts
    /\ role_arg = IntVal(0)
    /\ role_res = <<>>
    /\ sel_total = 0
    /\ sel_start = None
    /\ sel_calls = <<>>
    /\ animation_frame = ZeroFrame

\* the keys pressed on the timeline tab while results arrive: open the edit
\* form, open the delete dialog, confirm, close, quit
ModalKeys == {"e", "d", "y", "Esc", "q"}
ModalScripts == SeqsUpTo(ModalKeys, MaxKeys)

InitModalLoop == InitLoop(ModalScripts)

NextModalLoop ==
    \/ UiTick
    \/ UiRecv
    \/ UiSend
    \/ UiDrained
    \/ UiKey
    \/ UiNoKey
    \/ ApiTaskAbort
    \/ WorkerRecv
    \/ \E outcome \in {AllOk, AllFailed} : WorkerHttp(outcome)
    \/ WorkerSend

SpecModalLoop == InitModalLoop /\ [][NextModalLoop]_vars

\* a user saving a new client again and again while the backend is slow,
\* then refreshing: to the clients tab, the create form, a name, the focus
\* to Save, Enter Creates times, Esc, 'r' Refreshes times
BurstScript ==
    <<"BackTab", "c", "a", "Tab", "Tab">> \o [i \in 1..Creates |-> "Enter"]
        \o <<"Esc">> \o [i \in 1..Refreshes |-> "r"]

InitBurst == InitLoop({BurstScript})

\* the user is typing: the lists of the startup refresh are on screen and
\* keys of the script are still to come
typing == users # <<>> /\ key_script # <<>>

\* the user starts once the startup refresh is on screen
TypedKey == users # <<>> /\ UiKey

\* while the user types a key is ready at every poll
IdlePoll == ~typing /\ UiNoKey

\* while the user types the backend has not answered yet; then every call
\* succeeds
BackendAnswers == ~typing /\ WorkerHttp(AllOk)

\* the passes of the loop are followed for the length of the burst
BurstTick == frame_below(animation_frame, MaxBurstTicks) /\ TickAndDraw

NextBurst ==
    \/ BurstTick
    \/ UiRecv
    \/ UiSend
    \/ UiDrained
    \/ TypedKey
    \/ IdlePoll
    \/ WorkerRecv
    \/ BackendAnswers
    \/ WorkerSend

SpecBurst == InitBurst /\ [][NextBurst]_vars

\* the steps of the event loop task and of the worker task
UiStep == BurstTick \/ UiRecv \/ UiSend \/ UiDrained \/ TypedKey \/ IdlePoll
WorkerStep == WorkerRecv \/ BackendAnswers \/ WorkerSend

\* both tasks keep being scheduled by the tokio runtime, and every HTTP call
\* returns: a task that can take a step eventually takes one
SpecBurstFair ==
    InitBurst /\ [][NextBurst]_vars /\ WF_vars(UiStep) /\ WF_vars(WorkerStep)

----------------------------------------------------------------------------
(* The delete dialog on the three tabs, while refreshed lists arrive.       *)

ConfirmProjectLists == FormProjectLists \cup {<<>>}
ConfirmClientLists == {<<>>, <<Client(1)>>, <<Client(2), Client(1)>>}
ConfirmUserLists == {<<User(1)>>, <<User(2), User(1)>>}

ConfirmNormalKeys == {"Tab", "BackTab", "d", "Delete", "j", "y", "Enter"}
ConfirmingKeys ==
    {"Esc", "n", "N", "y", "Y", "Enter", "Left", "Right", "Tab", "d", "j"}

NextConfirm ==
    \/ \E ps \in ConfirmProjectLists : ProjectsLoaded(ps)
    \/ \E cs \in ConfirmClientLists : ClientsLoaded(cs)
    \/ \E us \in ConfirmUserLists : UsersLoaded(us)
    \/ \E key \in (IF input_mode = "Normal" THEN ConfirmNormalKeys
                    ELSE ConfirmingKeys) : FormKey(key)

SpecConfirm == Init /\ [][NextConfirm]_vars

----------------------------------------------------------------------------
(* The error popup and the help overlay, over the three tabs, an open form  *)
(* or an open delete dialog.                                                *)

\* handle_api_message(ApiMessage::Error(..)): a command of the App failed
ErrorArrives ==
    /\ ~should_quit
    /\ MessageHandled(ErrorMsg)
    /\ last_key' = "Error"
    /\ UNCHANGED <<loop_vars, caller_vars>>

\* the keys pressed while a popup or the help overlay is shown
OverlayKeys ==
    {"Esc", "Enter", " ", "?", "q", "Ctrl-c", "c", "d", "r", "Tab", "+", "=",
     "x"}
\* the keys pressed otherwise, by mode
OverlayNormalKeys == {"?", "q", "Ctrl-c", "c", "d", "r", "Tab"}
OverlayEditingKeys == {"Esc", "Tab", "Enter"}
OverlayConfirmingKeys == {"Esc", "Tab", "q", "Enter"}

\* handle_key(key) while the loop runs; last_key keeps the key and last_cmd
\* the command returned, which the caller sends
OverlayKey(key) ==
    /\ ~should_quit
    /\ KeyHandled(key)
    /\ IF form_state' = None THEN TRUE ELSE form_in_bounds(Unwrap(form_state'))
    /\ last_key' = key
    /\ UNCHANGED <<loop_vars, caller_vars>>

NextOverlay ==
    \/ \E ps \in FormProjectLists : ProjectsLoaded(ps)
    \/ \E cs \in FormClientLists : ClientsLoaded(cs)
    \/ ErrorArrives
    \/ \E key \in (IF error_popup # None \/ show_help THEN OverlayKeys
                    ELSE IF input_mode = "Normal" THEN OverlayNormalKeys
                    ELSE IF input_mode = "Editing" THEN OverlayEditingKeys
                    ELSE OverlayConfirmingKeys) : OverlayKey(key)

SpecOverlay == Init /\ [][NextOverlay]_vars

----------------------------------------------------------------------------
(* The cursor of the clients and users lists, while refreshed lists of      *)
(* other lengths arrive.                                                    *)

ListClientLists == {<<>>, <<Client(1)>>, <<Client(1), Client(2), Client(3)>>}
ListUserLists == {<<User(1)>>, <<User(1), User(2)>>}

ListMoveKeys == {"j", "k", "g", "G", "Down", "Up"}
ListKeys == ListMoveKeys \cup {"Tab", "BackTab"}

NextList ==
    \/ \E cs \in ListClientLists : ClientsLoaded(cs)
    \/ \E us \in ListUserLists : UsersLoaded(us)
    \/ \E key \in ListKeys : OverlayKey(key)

SpecList == Init /\ [][NextList]_vars

----------------------------------------------------------------------------
(* Role and its conversions from and to i32, called directly.              *)

Roles == {"Manager", "Admin"}

I32Max == 2147483647
I32Min == (-I32Max) - 1

RoleInts == ((-MaxRoleInt)..MaxRoleInt) \cup {I32Min, I32Max}

\* the conversion taking every non-zero integer for Admin
role_from_i32_nonzero(value) == IF value = 0 THEN "Manager" ELSE "Admin"

\* impl From<i32> for Role
role_from_i32(value) == IF value = 1 THEN "Admin" ELSE "Manager"

\* impl From<Role> for i32: `role as i32`, the discriminant
i32_from_role(role) == IF role = "Manager" THEN 0 ELSE 1

InitRole ==
    /\ projects = <<>>
    /\ scroll_offset = 0
    /\ selected_project = None
    /\ days_per_column = DefaultZoom
    /\ is_loading = TRUE
    /\ today \in Todays
    /\ last_key = "none"
    /\ InitModal
    /\ InitIdleLoop
    /\ sel_total = 0
    /\ sel_start = None
    /\ sel_calls = <<>>
    /\ animation_frame = ZeroFrame
    /\ role_arg \in {RoleVal(r) : r \in Roles} \cup {IntVal(i) : i \in RoleInts}
    /\ role_res = <<>>

\* the value the next conversion is applied to
role_current == IF role_res = <<>> THEN role_arg ELSE role_res[Len(role_res)]

\* Role::from(value)
CallRoleFrom ==
    /\ Len(role_res) < 2
    /\ role_current.int # None
    /\ role_res' = Append(role_res,
                          RoleVal(role_from_i32(Unwrap(role_current.int))))
    /\ UNCHANGED <<projects, scroll_offset, selected_project, days_per_column,
                   is_loading, today, last_key, modal_vars, loop_vars,
                   sel_total, sel_start, sel_calls, role_arg,
                   animation_frame>>

\* i32::from(role)
CallI32From ==
    /\ Len(role_res) < 2
    /\ role_current.role # None
    /\ role_res' = Append(role_res,
                          IntVal(i32_from_role(Unwrap(role_current.role))))
    /\ UNCHANGED <<projects, scroll_offset, selected_project, days_per_column,
                   is_loading, today, last_key, modal_vars, loop_vars,
                   sel_total, sel_start, sel_calls, role_arg,
                   animation_frame>>

NextRole == CallRoleFrom \/ CallI32From

SpecRole == InitRole /\ [][NextRole]_vars

----------------------------------------------------------------------------
(* TimelineState::select_next / select_previous called directly.  The      *)
(* caller fixes `total` and starts from any selection a TimelineState can  *)
(* hold: None, an index of the list, or an index left over from a longer   *)
(* list.                                                                   *)

\* at most one full cycle and one more call
MaxCalls == MaxTotal + 1

Selections == {None} \cup { Some(i) : i \in 0..MaxTotal }

InitSelect ==
    /\ projects = <<>>
    /\ scroll_offset = 0
    /\ selected_project \in Selections
    /\ days_per_column = DefaultZoom
    /\ is_loading = TRUE
    /\ today \in Todays
    /\ last_key = "none"
    /\ InitModal
    /\ InitIdleLoop
    /\ role_arg = IntVal(0)
    /\ role_res = <<>>
    /\ sel_total \in 0..MaxTotal
    /\ sel_start = selected_project
    /\ sel_calls = <<>>
    /\ animation_frame = ZeroFrame

\* state.select_next(total)
CallSelectNext ==
    /\ Len(sel_calls) < MaxCalls
    /\ selected_project' = select_next(sel_total)
    /\ sel_calls' = Append(sel_calls, "next")
    /\ UNCHANGED <<projects, scroll_offset, days_per_column, is_loading, today,
                   last_key, modal_vars, loop_vars, sel_total, sel_start,
                   role_arg, role_res, animation_frame>>

\* state.select_previous(total)
CallSelectPrevious ==
    /\ Len(sel_calls) < MaxCalls
    /\ selected_project' = select_previous(sel_total)
    /\ sel_calls' = Append(sel_calls, "previous")
    /\ UNCHANGED <<projects, scroll_offset, days_per_column, is_loading, today,
                   last_key, modal_vars, loop_vars, sel_total, sel_start,
                   role_arg, role_res, animation_frame>>

NextSelect == CallSelectNext \/ CallSelectPrevious

SpecSelect == InitSelect /\ [][NextSelect]_vars

----------------------------------------------------------------------------
(* The mutators of TimelineState called directly on a state whose fields    *)
(* the caller chose.  last_key keeps the name of the method called.        *)

\* the scroll offsets the calls are explored over
ViewScrolls == -7..7
\* animation frames before a carry into the second limb, before a carry
\* through every limb, and at the start
StartFrames == {ZeroFrame, [ZeroFrame EXCEPT ![1] = LimbMax], MaxFrame}

RECURSIVE ticked(_, _)
ticked(frame, n) == IF n = 0 THEN frame ELSE ticked(tick(frame), n - 1)

\* the frames tick is called on
TickFrames == { ticked(f, n) : f \in StartFrames, n \in 0..(MaxTicks - 1) }

InitViewport ==
    /\ projects = <<>>
    /\ scroll_offset \in {-1, 0, 5}
    /\ selected_project \in Selections
    /\ days_per_column = DefaultZoom
    /\ is_loading = TRUE
    /\ today \in Todays
    /\ last_key = "none"
    /\ InitModal
    /\ InitIdleLoop
    /\ role_arg = IntVal(0)
    /\ role_res = <<>>
    /\ sel_total \in {0, 1, MaxTotal}
    /\ sel_start = selected_project
    /\ sel_calls = <<>>
    /\ animation_frame \in StartFrames

\* state.scroll_left(amount)
StateScrollLeft(amount) ==
    /\ scroll_left(amount) \in ViewScrolls
    /\ scroll_offset' = scroll_left(amount)
    /\ last_key' = "scroll_left"
    /\ UNCHANGED <<projects, selected_project, days_per_column, is_loading,
                   today, modal_vars, loop_vars, caller_vars>>

\* state.scroll_right(amount)
StateScrollRight(amount) ==
    /\ scroll_right(amount) \in ViewScrolls
    /\ scroll_offset' = scroll_right(amount)
    /\ last_key' = "scroll_right"
    /\ UNCHANGED <<projects, selected_project, days_per_column, is_loading,
                   today, modal_vars, loop_vars, caller_vars>>

\* state.zoom_in()
StateZoomIn ==
    /\ days_per_column' = zoom_in
    /\ last_key' = "zoom_in"
    /\ UNCHANGED <<projects, scroll_offset, selected_project, is_loading,
                   today, modal_vars, loop_vars, caller_vars>>

\* state.zoom_out()
StateZoomOut ==
    /\ days_per_column' = zoom_out
    /\ last_key' = "zoom_out"
    /\ UNCHANGED <<projects, scroll_offset, selected_project, is_loading,
                   today, modal_vars, loop_vars, caller_vars>>

\* state.select_next(total)
StateSelectNext ==
    /\ selected_project' = select_next(sel_total)
    /\ last_key' = "select_next"
    /\ UNCHANGED <<projects, scroll_offset, days_per_column, is_loading,
                   today, modal_vars, loop_vars, caller_vars>>

\* state.select_previous(total)
StateSelectPrevious ==
    /\ selected_project' = select_previous(sel_total)
    /\ last_key' = "select_previous"
    /\ UNCHANGED <<projects, scroll_offset, days_per_column, is_loading,
                   today, modal_vars, loop_vars, caller_vars>>

\* state.tick()
StateTick ==
    /\ animation_frame \in TickFrames
    /\ animation_frame' = tick(animation_frame)
    /\ last_key' = "tick"
    /\ UNCHANGED <<projects, scroll_offset, selected_project, days_per_column,
                   is_loading, today, modal_vars, loop_vars, sel_total,
                   sel_start, sel_calls, role_arg, role_res>>

NextViewport ==
    \/ \E amount \in {1, 7} : StateScrollLeft(amount)
    \/ \E amount \in {1, 7} : StateScrollRight(amount)
    \/ StateZoomIn
    \/ StateZoomOut
    \/ StateSelectNext
    \/ StateSelectPrevious
    \/ StateTick

SpecViewport == InitViewport /\ [][NextViewport]_vars

TypeOK ==
    /\ projects \in ProjectLists \cup LayoutLists
    /\ scroll_offset \in Int
    /\ selected_project \subseteq 0..MaxProjects
    /\ Cardinality(selected_project) <= 1
    /\ days_per_column \in 1..64
    /\ is_loading \in BOOLEAN
    /\ input_mode \in {"Normal", "Editing", "Confirming"}
    /\ Cardinality(form_state) <= 1
    /\ Cardinality(confirm_dialog) <= 1

----------------------------------------------------------------------------
(* Vocabulary of the properties *)

JumpKeys == {"j", "k", "Enter"}

\* the timeline epoch the layout uses for the current project list
epoch == calculate_timeline_start(projects)

has_selected == selected_project # None /\ Unwrap(selected_project) < Len(projects)

selected == projects[Unwrap(selected_project) + 1]

duration(p) == project_end_date(p) - p.start_date

effective_width == SatSubU16(JumpViewportWidth, NameColumn)

\* mathematical floor of a / b, b > 0
FloorDiv(a, b) == a \div b

Abs(a) == IF a >= 0 THEN a ELSE -a

\* the dates around the date shown at the viewport's left edge
Dates == LET left_edge == epoch + scroll_offset
         IN (left_edge - DateWindow)..(left_edge + DateWindow)

----------------------------------------------------------------------------
(* Properties *)

\* C1: after any sequence of viewport operations from the default state,
\* scroll_offset >= 0 (scroll_left saturates at 0).
C1_ScrollOffsetNonNegative == scroll_offset >= 0

\* C2: when the result is not clamped at 0, jump_to_project stores
\* days_from_epoch(midpoint) - (effective_width/2) * zoom, the column offset
\* being converted to days with the actual zoom value, so that the midpoint
\* is drawn at column effective_width/2 at every reachable zoom.
C2_JumpCentersMidpoint ==
    (last_key \in JumpKeys /\ has_selected /\ scroll_offset > 0) =>
        /\ scroll_offset * ZoomScale =
               (project_mid(selected) - epoch) * ZoomScale
                   - (effective_width \div 2) * days_per_column
        /\ date_to_column_raw(project_mid(selected), epoch) = effective_width \div 2

\* C3 (as stated): at zoom 1.0 and viewport width 100, jumping to a project
\* that starts at the epoch stores scroll_offset = 0 and leaves the project's
\* start column inside the visible window, whatever the project's duration.
C3_EpochProjectAnyDuration ==
    (/\ last_key \in JumpKeys
     /\ has_selected
     /\ days_per_column = ZoomScale
     /\ selected.start_date = epoch
     /\ duration(selected) >= 0) =>
        /\ scroll_offset = 0
        /\ date_to_column(selected.start_date, epoch, effective_width) # None

\* C3 (amended): the same, for a project whose half duration does not exceed
\* the centre column effective_width/2 = 37, i.e. whose duration is at most
\* 75 days.
C3_EpochProjectShortDuration ==
    (/\ last_key \in JumpKeys
     /\ has_selected
     /\ days_per_column = ZoomScale
     /\ selected.start_date = epoch
     /\ duration(selected) >= 0
     /\ duration(selected) \div 2 <= effective_width \div 2) =>
        /\ scroll_offset = 0
        /\ date_to_column(selected.start_date, epoch, effective_width) # None

C3_Witness ==
    /\ last_key = "Enter"
    /\ has_selected
    /\ days_per_column = ZoomScale
    /\ selected.start_date = epoch
    /\ duration(selected) \div 2 > 0
    /\ duration(selected) \div 2 <= effective_width \div 2
    /\ Len(projects) > 1
    /\ scroll_offset = 0

\* C4: raw_column(date) = floor((days_from_epoch(date) - scroll_offset) / zoom)
\* for every date, also when the numerator is negative, so that a date
\* strictly before the left edge has a negative column.
C4_RawColumnIsFloor ==
    \A d \in Dates :
        /\ date_to_column_raw(d, epoch) =
               FloorDiv((d - epoch - scroll_offset) * ZoomScale, days_per_column)
        /\ (d - epoch < scroll_offset) => date_to_column_raw(d, epoch) < 0

\* C5: the zoom stays within [0.25, 14.0] and is never 0 or negative.
C5_ZoomWithinRange ==
    /\ days_per_column >= ZoomInGuard
    /\ days_per_column <= ZoomOutGuard
    /\ days_per_column > 0

\* C6: after ProjectsLoaded with a non-empty list and after every navigation
\* key (j, k, Enter) the selected project's bar intersects the visible
\* columns [0, bar_width), whatever the width of the widget.
C6_SelectedStaysVisible ==
    (/\ last_key \in JumpKeys \cup {"ProjectsLoaded"}
     /\ Len(projects) # 0
     /\ has_selected) => \A w \in AreaWidths : bar_visible(selected, w)

\* C7: center_on_today(width) stores
\* max(0, days_from_epoch(today) - (width/2) * zoom), the epoch being the one
\* the layout uses for the current project list.
C7_CenterOnTodayUsesLayoutEpoch ==
    (last_key = "t") =>
        scroll_offset * ZoomScale =
            Max(0, (today - epoch) * ZoomScale
                       - (TodayViewportWidth \div 2) * days_per_column)

\* C8: for fixed epoch, scroll_offset and zoom, raw_column is monotonically
\* non-decreasing in the date.
C8_RawColumnMonotone ==
    LET start == epoch
        \* (@@ <<>> has the columns computed once, not once per pair)
        raw_column == [d \in Dates |-> date_to_column_raw(d, start)] @@ <<>>
    IN \A d1, d2 \in Dates : d1 < d2 => raw_column[d1] <= raw_column[d2]

C8_Witness ==
    /\ scroll_offset > 0
    /\ days_per_column > ZoomScale
    /\ \E d1, d2 \in Dates :
           /\ d1 < epoch + scroll_offset
           /\ d2 > epoch + scroll_offset
           /\ date_to_column_raw(d1, epoch) < 0
           /\ date_to_column_raw(d2, epoch) > 0

\* C9: mapping a date to its raw column and back with the time axis'
\* column-to-date computation gives a date within zoom days of the original,
\* on either side of the viewport's left edge.
C9_RoundTripWithinZoom ==
    \A d \in Dates :
        Abs(axis_date(date_to_column_raw(d, epoch), epoch) - d) * ZoomScale
            <= days_per_column

C9_Witness ==
    /\ days_per_column > ZoomScale
    /\ scroll_offset > 0
    /\ \E d1, d2 \in Dates :
           /\ d1 < epoch + scroll_offset
           /\ d2 > epoch + scroll_offset
           /\ axis_date(date_to_column_raw(d1, epoch), epoch) # d1
           /\ axis_date(date_to_column_raw(d2, epoch), epoch) # d2

\* C10: the scroll_offset jump_to_project stores does not depend on the
\* prior scroll_offset: a jump that directly follows a jump, with the
\* selection, the project list and the zoom unchanged, stores the same
\* scroll_offset again.
C10_JumpTwiceSameOffset ==
    [][(last_key \in JumpKeys /\ KeyEnter) => scroll_offset' = scroll_offset]_vars

C10_Witness ==
    /\ last_key = "Enter"
    /\ has_selected
    /\ scroll_offset > 0
    /\ scroll_offset = jump_to_project(selected, projects, JumpViewportWidth)

\* the caller has made exactly n calls, all of them select_next
only_next_calls(n) == sel_calls = [i \in 1..n |-> "next"]

\* C11 (as stated): from selected_index = None, calling select_next(total)
\* exactly total times (total >= 1) returns the cursor to index 0.
C11_TotalCallsReturnToZero ==
    (sel_start = None /\ sel_total >= 1 /\ only_next_calls(sel_total))
        => selected_project = Some(0)

\* C11 (amended): from selected_index = None the first call selects index 0,
\* so total calls leave the cursor on the last index total - 1 and it is the
\* call after them, number total + 1, that wraps the cursor back to index 0.
C11_WrapsAfterFullCycle ==
    (sel_start = None /\ sel_total >= 1) =>
        /\ only_next_calls(sel_total) => selected_project = Some(sel_total - 1)
        /\ only_next_calls(sel_total + 1) => selected_project = Some(0)

C11_Witness ==
    /\ sel_start = None
    /\ sel_total >= 2
    /\ only_next_calls(sel_total + 1)
    /\ selected_project = Some(0)

\* C12: select_previous(total) from index 0 moves to total - 1 (total >= 1),
\* and with total = 0 both select_next and select_previous store None.
C12_PreviousWrapsAndEmptyClears ==
    [][ /\ (CallSelectPrevious /\ selected_project = Some(0) /\ sel_total >= 1)
            => selected_project' = Some(sel_total - 1)
        /\ ((CallSelectNext \/ CallSelectPrevious) /\ sel_total = 0)
            => selected_project' = None ]_vars

C12_Witness ==
    /\ sel_start = Some(0)
    /\ sel_total >= 2
    /\ sel_calls = <<"previous">>
    /\ selected_project = Some(sel_total - 1)

\* C13: after select_next or select_previous with total >= 1 the selection is
\* Some(i) with 0 <= i < total, and from an index inside the list it has
\* moved by exactly one step modulo total.
C13_SelectionInRangeAfterCall ==
    [][ ((CallSelectNext \/ CallSelectPrevious) /\ sel_total >= 1) =>
          /\ selected_project' # None
          /\ Unwrap(selected_project') \in 0..(sel_total - 1)
          /\ (selected_project # None /\ Unwrap(selected_project) < sel_total) =>
                \/ CallSelectNext /\ Unwrap(selected_project')
                        = (Unwrap(selected_project) + 1) % sel_total
                \/ CallSelectPrevious /\ Unwrap(selected_project')
                        = (Unwrap(selected_project) - 1) % sel_total ]_vars

NavigationKeys == {"j", "k"}

\* C14 (as stated): in every reachable state in which the project list is
\* empty, selected_index is None.
C14_EmptyListNoSelection ==
    Len(projects) = 0 => selected_project = None

\* C14 (amended): whenever a navigation key has just been handled with an
\* empty project list, selected_index is None.  (ProjectsLoaded with an empty
\* list keeps a selection made earlier.)
C14_EmptyListNavigationClears ==
    (Len(projects) = 0 /\ last_key \in NavigationKeys) => selected_project = None

C14_Witness ==
    /\ Len(projects) = 0
    /\ is_loading = FALSE
    /\ last_key = "j"
    /\ selected_project = None

\* the selection points past the end of the project list
stale == selected_project # None /\ Unwrap(selected_project) >= Len(projects)

\* the fields of the App, without the history the model adds
app_fields == <<projects, scroll_offset, selected_project, days_per_column,
                is_loading, input_mode, form_state, confirm_dialog, active_tab,
                clients, users, list_selected, error_popup>>

\* C15: with a stale selection, jump-to-selected (Enter), open-edit-form (e)
\* and open-delete-confirm (d) change no field of the App, and no row is
\* rendered as selected; ProjectsLoaded never clears or alters an existing
\* Some(selected_index).
C15_StaleSelectionIsInert ==
    [][ /\ (stale /\ (KeyEnter \/ KeyE \/ KeyD)) => UNCHANGED app_fields
        /\ stale => \A index \in 0..(Len(projects) - 1) : ~is_selected(index)
        /\ ((\E ps \in ProjectLists : ProjectsLoaded(ps)) /\ selected_project # None)
              => selected_project' = selected_project ]_vars

C15_Witness ==
    /\ stale
    /\ Len(projects) >= 1
    /\ last_key \in {"Enter", "e", "d"}
    /\ input_mode = "Normal"

valid_span(p) == p.start_date <= project_end_date(p)

\* C16: for a project with start_date <= effective end, the bar is invisible
\* if and only if end_col_raw < 0 or start_col_raw >= bar_width (the guard
\* visible_end < visible_start hides no such bar), in a widget wide enough
\* to be rendered at all.
C16_InvisibleIffOutsideWindow ==
    \A i \in 1..Len(projects), w \in AreaWidths :
        LET p == projects[i]
        IN valid_span(p) =>
            (painted_cells(p, w) = {}
                <=> (end_col_raw(p) < 0 \/ start_col_raw(p) >= bar_area_width(w)))

\* the second project entirely before the viewport and not painted, the
\* first one painted
C16_Witness ==
    /\ Len(projects) = 2
    /\ valid_span(projects[2])
    /\ \E w \in AreaWidths :
          /\ end_col_raw(projects[2]) < 0
          /\ painted_cells(projects[2], w) = {}
          /\ painted_cells(projects[1], w) # {}

\* C17: whenever a bar is drawn, 0 <= visible_start <= visible_end <=
\* bar_width - 1, every painted cell lies in that range, visible_start = 0
\* when the project straddles the left edge and visible_end = bar_width - 1
\* when it straddles the right edge.
C17_ClippedSpanInsideBarArea ==
    \A i \in 1..Len(projects), w \in AreaWidths :
        LET p == projects[i]
            vs == visible_start(p, w)
            ve == visible_end(p, w)
            bar_width == bar_area_width(w)
        IN bar_visible(p, w) =>
            /\ 0 <= vs /\ vs <= ve /\ ve <= bar_width - 1
            /\ \A col \in painted_cells(p, w) : vs <= col /\ col <= ve
            /\ (start_col_raw(p) < 0 /\ 0 <= end_col_raw(p)) => vs = 0
            /\ (start_col_raw(p) < bar_width /\ bar_width <= end_col_raw(p))
                  => ve = bar_width - 1

\* a bar drawn across the whole bar area, straddling both edges
C17_Witness ==
    \E i \in 1..Len(projects), w \in AreaWidths :
        LET p == projects[i]
        IN /\ bar_visible(p, w)
           /\ start_col_raw(p) < 0
           /\ end_col_raw(p) >= bar_area_width(w)
           /\ painted_cells(p, w) = 0..(bar_area_width(w) - 1)

\* C18: a project whose effective end date is before its start_date is never
\* drawn: no bar cell is painted for it at any scroll_offset and zoom.
C18_InvalidSpanNeverDrawn ==
    \A i \in 1..Len(projects), w \in AreaWidths :
        ~valid_span(projects[i]) => painted_cells(projects[i], w) = {}

\* the projects of the list
listed == { projects[i] : i \in 1..Len(projects) }

\* C19: a project with actual_end_date set classifies as completed and never
\* as overdue, whatever the relation between today, start_date and
\* planned_end_date.
C19_CompletedNeverOverdue ==
    \A p \in listed \cup StatusProjects(today) :
        is_completed(p) =>
            /\ ~is_overdue(p)
            /\ status_char(p) = "COMPLETED"
            /\ status_color(p) = "GREEN"

\* a completed project of the list whose planned end date is in the past
C19_Witness ==
    \E p \in listed :
        /\ p.actual_end_date # None
        /\ today > p.planned_end_date
        /\ status_char(p) = "COMPLETED"

\* C20: the timeline classifies every project as exactly one of completed,
\* overdue, pending, active, decided in that order: completed if
\* actual_end_date is set; else overdue if today > planned_end_date; else
\* pending if start_date > today; else active.
C20_TimelineFourWayStatus ==
    \A p \in listed :
        status_char(p) =
            IF p.actual_end_date # None THEN "COMPLETED"
            ELSE IF today > p.planned_end_date THEN "OVERDUE"
            ELSE IF p.start_date > today THEN "PENDING"
            ELSE "ACTIVE"

\* C21: with epoch day 0, today = day 10, scroll_offset 0 and zoom 1, the
\* not-completed project spanning days [5, 20] is classified active and the
\* today marker is drawn inside its bar at column 10, while the project
\* spanning days [0, 8] with no actual_end_date is classified overdue.
C21_ActiveWithMarkerAndOverdue ==
    (/\ epoch = 0 /\ today = 10 /\ scroll_offset = 0 /\ days_per_column = DefaultZoom)
    => /\ ProjectA \in listed =>
            /\ status_char(ProjectA) = "ACTIVE"
            /\ \A w \in AreaWidths :
                  /\ today_marker(ProjectA, w) = Some(10)
                  /\ 10 \in painted_cells(ProjectA, w)
                  /\ visible_start(ProjectA, w) <= 10
                  /\ 10 <= visible_end(ProjectA, w)
       /\ ProjectB \in listed => status_char(ProjectB) = "OVERDUE"

C21_Witness ==
    /\ projects = <<ProjectB, ProjectA>>
    /\ today = 10
    /\ scroll_offset = 0
    /\ days_per_column = DefaultZoom
    /\ last_key = "+"
    /\ status_char(ProjectA) = "ACTIVE"
    /\ status_char(ProjectB) = "OVERDUE"
    /\ today_marker(ProjectA, 100) = Some(10)

\* TimelineWidget::render returns before drawing below this inner width
MinInnerWidth == 30

\* widget widths on both sides of the width test of render: inner widths
\* 0..32, bar areas of 0..5 columns
EdgeAreaWidths == 0..(MinInnerWidth + 4)

\* C22: in a degenerate viewport nothing is drawn and no width goes
\* negative: the widget paints no bars when the inner width is below 30,
\* no bar is painted when bar_area_width is 0, and jump_to_project with
\* viewport_width <= 26 uses an effective width of 0 and stores a
\* scroll_offset >= 0.  render_project_bar is reached only past the width
\* test of render, with the inner width as its Rect width: there its name
\* column is 24 wide, name_width - 5 is not negative and the bar area has
\* inner width - 27 > 0 columns.
C22_DegenerateViewportDrawsNothing ==
    \A p \in listed :
        /\ \A w \in EdgeAreaWidths :
              /\ inner_width(w) >= 0
              /\ bar_area_width(w) >= 0
              /\ inner_width(w) < MinInnerWidth => painted_cells(p, w) = {}
              /\ bar_area_width(w) = 0 => painted_cells(p, w) = {}
              /\ inner_width(w) >= MinInnerWidth =>
                    /\ name_width(inner_width(w)) - 5 >= 0
                    /\ bar_area_width(w) = inner_width(w) - (NameColumn + 1)
                    /\ bar_area_width(w) > 0
                    /\ ~render_project_bar_panics(p, inner_width(w)) =>
                          render_project_bar_cells(p, inner_width(w))
                              = painted_cells(p, w)
        /\ \A viewport_width \in 0..NameColumn :
              /\ SatSubU16(viewport_width, NameColumn) = 0
              /\ jump_to_project(p, projects, viewport_width) >= 0
              /\ jump_to_project(p, projects, viewport_width)
                    = Max(project_mid(p) - epoch, 0)

\* a project that a wide widget shows: hidden in the widest widget render
\* refuses, though that one has room for two bar columns, drawn in the
\* narrowest one render accepts, and jumped to in a viewport without a bar
\* area
C22_Witness ==
    \E p \in listed :
        /\ bar_visible(p, 100)
        /\ inner_width(31) = MinInnerWidth - 1
        /\ bar_area_width(31) = 2
        /\ painted_cells(p, 31) = {}
        /\ bar_area_width(29) = 0
        /\ painted_cells(p, 29) = {}
        /\ inner_width(32) = MinInnerWidth
        /\ ~render_project_bar_panics(p, inner_width(32))
        /\ render_project_bar_cells(p, inner_width(32)) # {}
        /\ painted_cells(p, 32) # {}
        /\ jump_to_project(p, projects, NameColumn) > 0

\* C23: the epoch used by the layout and by jump_to_project is the minimum
\* start_date over the current project list (today - 30 when the list is
\* empty), recomputed from the list the state holds: every listed project
\* has days_from_epoch(start_date) >= 0, and at scroll_offset 0 the
\* earliest-starting project's start maps to column 0.
C23_EpochIsMinimumStart ==
    /\ Len(projects) = 0 => epoch = today - Lookback
    /\ Len(projects) > 0 => \E p \in listed : epoch = p.start_date
    /\ \A p \in listed :
          /\ p.start_date - epoch >= 0
          /\ (scroll_offset = 0 /\ \A q \in listed : p.start_date <= q.start_date)
                => start_col_raw(p) = 0
          /\ start_col_raw(p) = date_to_column_raw(p.start_date, epoch)
          /\ jump_to_project(p, projects, JumpViewportWidth)
                = Max((project_mid(p) - epoch)
                        - (effective_width \div 2) * ZoomAsI64(days_per_column), 0)

\* the list has just been replaced by one whose earliest project is not the
\* first
C23_Witness ==
    /\ last_key = "ProjectsLoaded"
    /\ Len(projects) = 2
    /\ projects[2].start_date < projects[1].start_date
    /\ epoch = projects[2].start_date
    /\ scroll_offset = 0
    /\ start_col_raw(projects[2]) = 0

\* widths of the area date_to_column is asked about
ColumnWidths == {0, 1, 11, 71}

\* C24: date_to_column(date, width) is Some(raw_column(date)) exactly when
\* 0 <= raw_column(date) < width and None otherwise, for every date,
\* scroll_offset, zoom and width, width 0 included.
C24_VisibleColumnIsRawInsideWidth ==
    LET start == epoch
    IN \A d \in Dates, w \in ColumnWidths :
        LET raw == date_to_column_raw(d, start)
        IN /\ (0 <= raw /\ raw < w) => date_to_column(d, start, w) = Some(raw)
           /\ ~(0 <= raw /\ raw < w) => date_to_column(d, start, w) = None
           /\ w = 0 => date_to_column(d, start, w) = None

C24_Witness ==
    /\ scroll_offset < 0
    /\ days_per_column < DefaultZoom
    /\ \E d1, d2 \in Dates :
          /\ date_to_column_raw(d1, epoch) = 10
          /\ date_to_column(d1, epoch, 11) = Some(10)
          /\ date_to_column(d1, epoch, 1) = None
          /\ date_to_column_raw(d2, epoch) < 0
          /\ date_to_column(d2, epoch, 71) = None

\* C27: Role::from(i32::from(r)) = r for every Role r, with Manager <-> 0
\* and Admin <-> 1, and every integer other than 1 converts to Manager.
C27_RoleRoundTrip ==
    /\ \A r \in Roles :
          /\ (role_arg = RoleVal(r) /\ Len(role_res) >= 1) =>
                role_res[1] = IntVal(IF r = "Manager" THEN 0 ELSE 1)
          /\ (role_arg = RoleVal(r) /\ Len(role_res) = 2) =>
                role_res[2] = role_arg
    /\ \A i \in RoleInts :
          (role_arg = IntVal(i) /\ Len(role_res) >= 1) =>
              role_res[1] = RoleVal(IF i = 1 THEN "Admin" ELSE "Manager")

C27_Witness ==
    /\ role_arg = RoleVal("Admin")
    /\ role_res = <<IntVal(1), RoleVal("Admin")>>

\* the project command a key handler returned, if any
project_command ==
    IF last_cmd = None THEN None
    ELSE IF Unwrap(last_cmd).cmd \in {"CreateProject", "UpdateProject"}
         THEN last_cmd
         ELSE None

\* C25: a CreateProject or UpdateProject command is emitted only for a
\* project whose end date is after its start date.
C25_NoCommandUnlessEndAfterStart ==
    project_command # None =>
        Unwrap(project_command).dto.planned_end_date
            > Unwrap(project_command).dto.start_date

\* the requirements the form's data must meet for a command, as counted in
\* chars: a non-blank name; for users a non-blank login and, on create, a
\* password of at least 4 chars; for projects a client and a manager
form_is_valid(form) ==
    CASE form.form_type \in {"CreateClient", "EditClient"} ->
            ~trim_is_empty(form.client_name)
      [] form.form_type \in {"CreateProject", "EditProject"} ->
            /\ ~trim_is_empty(form.project_name)
            /\ form.project_client_idx < Len(clients)
            /\ form.project_manager_idx < Len(users)
      [] form.form_type = "CreateUser" ->
            /\ ~trim_is_empty(form.user_name)
            /\ ~trim_is_empty(form.user_login)
            /\ Len(form.user_password) >= 4
      [] form.form_type = "EditUser" ->
            /\ ~trim_is_empty(form.user_name)
            /\ ~trim_is_empty(form.user_login)

\* validate() of the DTO built from the form returns an Err
form_fails_validation(form) ==
    CASE form.form_type \in {"CreateClient", "EditClient"} ->
            validate_client(build_create_client(form)) # None
      [] form.form_type \in {"CreateProject", "EditProject"} ->
            validate_project(build_create_project(form)) # None
      [] form.form_type = "CreateUser" ->
            validate_create_user(build_create_user(form)) # None
      [] form.form_type = "EditUser" ->
            validate_update_user(build_update_user(form)) # None

\* C26: Enter in a form emits a command only when the focus is on Submit and
\* the form's data is valid; when validation fails no command is emitted,
\* the form stays open in Editing mode and its error is set; Enter on a text
\* or date field only moves the focus; Enter on Cancel closes the form
\* without a command.
C26_SubmitOnlyValidForms ==
    [][ (input_mode = "Editing" /\ form_state # None /\ FormKey("Enter")) =>
          LET form == Unwrap(form_state)
              field == current_field(form)
          IN /\ last_cmd' # None =>
                   (field = "SubmitButton" /\ form_is_valid(form))
             /\ (field = "SubmitButton" /\ form_fails_validation(form)) =>
                   /\ last_cmd' = None
                   /\ input_mode' = "Editing"
                   /\ form_state' # None
                   /\ Unwrap(form_state').error # None
             /\ (is_text_input(field) \/ is_date_picker(field)) =>
                   /\ last_cmd' = None
                   /\ form_state' = Some(next_field(form))
             /\ field = "CancelButton" =>
                   /\ last_cmd' = None
                   /\ form_state' = None
                   /\ input_mode' = "Normal" ]_vars

\* C28: in every reachable state the input mode agrees with the open modal:
\* the mode is Editing exactly when a form is open and Confirming exactly
\* when a delete dialog is open, however key events interleave with the API
\* result messages.
C28_ModeAgreesWithModal ==
    /\ (input_mode = "Editing") <=> (form_state # None)
    /\ (input_mode = "Confirming") <=> (confirm_dialog # None)


\* the event loop waits to send into the full command channel
ui_blocked == ui_pending # <<>> /\ Len(cmd_queue) = ChannelCapacity

\* the passes of the event loop have been followed as far as the burst goes
out_of_ticks == ~frame_below(animation_frame, MaxBurstTicks)

\* the worker waits to send into the full message channel
worker_blocked == worker_pending # <<>> /\ Len(msg_queue) = ChannelCapacity

\* C29: the event loop and the worker never deadlock: in no reachable state
\* is the event loop blocked sending into a full command channel while the
\* worker is blocked sending into a full message channel.
C29_NoDeadlock == ~(ui_blocked /\ worker_blocked)

\* C30: whenever is_loading is true (at startup and after the 'r' key) it
\* eventually becomes false, every HTTP call returning and both tasks being
\* scheduled.  A behaviour followed to its last pass of the loop is not held
\* against the claim.
C30_LoadingEventuallyCleared == is_loading ~> (~is_loading \/ out_of_ticks)


\* C31: handling ProjectsLoaded with a non-empty list leaves scroll_offset = 0
\* whatever the prior scroll_offset and selection, selects index 0 only if
\* nothing was selected, and leaves the zoom unchanged; with an empty list it
\* changes neither scroll_offset nor the selection.
C31_AutoCenterOnLoad ==
    [][last_key' = "ProjectsLoaded" =>
          IF Len(projects') # 0
          THEN /\ scroll_offset' = 0
               /\ selected_project' =
                     IF selected_project = None THEN Some(0)
                     ELSE selected_project
               /\ days_per_column' = days_per_column
          ELSE /\ scroll_offset' = scroll_offset
               /\ selected_project' = selected_project]_vars

\* a non-empty list has just been loaded over a selection made earlier, at a
\* zoom other than the default
C31_Witness ==
    /\ last_key = "ProjectsLoaded"
    /\ Len(projects) = 2
    /\ selected_project = Some(1)
    /\ scroll_offset = 0
    /\ days_per_column # DefaultZoom


\* the refresh commands the event loop owes for the message it consumes, as
\* the claim lists them
owed_refresh(msg) ==
    IF msg.msg \notin {"Created", "Updated", "Deleted"} THEN <<>>
    ELSE IF msg.entity_type = "Project" THEN << [cmd |-> "RefreshProjects"] >>
    ELSE IF msg.entity_type = "Client"
         THEN << [cmd |-> "RefreshClients"], [cmd |-> "RefreshProjects"] >>
    ELSE << [cmd |-> "RefreshUsers"], [cmd |-> "RefreshProjects"] >>

\* the event loop is inside its drain loop with refresh commands still to
\* enqueue for the message it consumed last
refresh_owed == ui_pc = "drain" /\ ui_pending # <<>>

\* the ordering part of C32: the message is applied to the App and the
\* commands owed for it are exactly those the claim lists, none for any other
\* message kind, and no further message is consumed while commands are owed.
C32_RefreshOrder ==
    [][UiRecv => /\ ui_pending' = owed_refresh(Head(msg_queue))
                 /\ ~refresh_owed]_vars

\* C32: whenever the event loop consumes a Created, Updated or Deleted
\* message it enqueues the refresh commands for it before consuming the next
\* message: commands owed are eventually all in the command channel.
C32_RefreshEnqueued == refresh_owed ~> ~refresh_owed


DeleteCommands == {"DeleteClient", "DeleteProject", "DeleteUser"}

\* the key's handling returns a Delete command
emits_delete == last_cmd' # None /\ Unwrap(last_cmd').cmd \in DeleteCommands

\* the entity the 'd' key would open a dialog for, and its id
entity_under_cursor ==
    CASE active_tab = "Clients" -> [entity_type |-> "Client", list |-> clients, index |-> list_selected]
      [] active_tab = "Users" -> [entity_type |-> "User", list |-> users, index |-> list_selected]
      [] active_tab = "Timeline" ->
            [entity_type |-> "Project", list |-> projects,
             index |-> IF selected_project = None THEN Len(projects)
                       ELSE Unwrap(selected_project)]

\* C33: a Delete command is emitted only while a confirm dialog is open, only
\* for 'y'/'Y' or for Enter with Yes focused, and carries the entity type and
\* id the dialog holds, which are those of the entity under the cursor when
\* the dialog was opened and do not change while it is open; a newly opened
\* dialog has No focused; Enter with No focused, Esc and 'n' close the dialog
\* without a command.
C33_DeleteOnlyWhenConfirmed ==
    [][\A key \in ConfirmNormalKeys \cup ConfirmingKeys :
          FormKey(key) =>
            /\ emits_delete =>
                  /\ input_mode = "Confirming"
                  /\ confirm_dialog # None
                  /\ IF confirm_dialog = None THEN FALSE
                     ELSE LET dialog == Unwrap(confirm_dialog)
                          IN /\ \/ key \in {"y", "Y"}
                                \/ key = "Enter" /\ dialog.yes_focused
                             /\ Unwrap(last_cmd').cmd =
                                    "Delete" \o dialog.entity_type
                             /\ Unwrap(last_cmd').id = dialog.entity_id
            /\ (confirm_dialog = None /\ confirm_dialog' # None) =>
                  IF confirm_dialog' = None THEN FALSE
                  ELSE LET opened == Unwrap(confirm_dialog')
                           e == entity_under_cursor
                       IN /\ key \in {"d", "Delete"}
                          /\ ~opened.yes_focused
                          /\ e.index < Len(e.list)
                          /\ opened.entity_type = e.entity_type
                          /\ opened.entity_id = e.list[e.index + 1].id
            /\ (confirm_dialog # None /\ confirm_dialog' # None) =>
                  IF confirm_dialog = None \/ confirm_dialog' = None THEN FALSE
                  ELSE /\ Unwrap(confirm_dialog').entity_type
                            = Unwrap(confirm_dialog).entity_type
                       /\ Unwrap(confirm_dialog').entity_id
                            = Unwrap(confirm_dialog).entity_id
            /\ (/\ input_mode = "Confirming"
                /\ confirm_dialog # None
                /\ \/ key \in {"Esc", "n", "N"}
                   \/ key = "Enter" /\ confirm_dialog = Some([Unwrap(confirm_dialog) EXCEPT !.yes_focused = FALSE])) =>
                  /\ confirm_dialog' = None
                  /\ input_mode' = "Normal"
                  /\ last_cmd' = None]_vars

\* a Delete command has just been returned for an entity that the refreshed
\* list no longer shows under the cursor
C33_Witness ==
    /\ last_cmd = Some([cmd |-> "DeleteClient", id |-> 1])
    /\ input_mode = "Confirming"
    /\ confirm_dialog # None
    /\ active_tab = "Clients"
    /\ list_selected = 0
    /\ clients = <<Client(2), Client(1)>>


\* today is earlier than the date at the viewport's left edge
today_left_of_viewport == today - epoch < scroll_offset

\* C34: the today marker is drawn on a project's row if and only if the bar
\* is visible and today's visible column, computed with the bar sub-area
\* width, lies within [visible_start, visible_end]; when today is left of
\* the viewport's left edge no marker is drawn on any row.
C34_TodayMarkerInsideBar ==
    \A i \in 1..Len(projects), w \in AreaWidths :
        LET p == projects[i]
            today_col == date_to_column(today, epoch, bar_area_width(w))
        IN /\ (marker_cell(p, w) # None) <=>
                 (/\ bar_visible(p, w)
                  /\ today_col # None
                  /\ \E c \in today_col :
                        visible_start(p, w) <= c /\ c <= visible_end(p, w))
           /\ today_left_of_viewport => marker_cell(p, w) = None


\* the state of the forms, the dialog, the tabs, the lists and the viewport
\* is left as it was
modal_and_viewport_unchanged ==
    UNCHANGED <<input_mode, form_state, confirm_dialog, active_tab,
                list_selected, clients, users, projects, scroll_offset,
                selected_project, days_per_column, is_loading>>

\* C35: while an error popup is shown, a key returns no command and changes
\* nothing but the popup, which Esc, Enter and Space clear; while the help
\* overlay is shown and no popup is, a key returns no command and changes
\* nothing but the overlay, which only Esc, '?' and Enter hide.  In either
\* case 'q' does not quit and no form, dialog, tab or viewport state changes.
C35_OverlaysSwallowKeys ==
    [][\A key \in OverlayKeys :
          OverlayKey(key) =>
            /\ error_popup # None =>
                  /\ last_cmd' = None
                  /\ error_popup' =
                        IF key \in {"Esc", "Enter", " "} THEN None
                        ELSE error_popup
                  /\ UNCHANGED <<show_help, should_quit>>
                  /\ modal_and_viewport_unchanged
            /\ (error_popup = None /\ show_help) =>
                  /\ last_cmd' = None
                  /\ show_help' = (key \notin {"Esc", "?", "Enter"})
                  /\ UNCHANGED <<error_popup, should_quit>>
                  /\ modal_and_viewport_unchanged]_vars

\* 'q' has just been pressed with the popup shown over the help overlay, on
\* the clients tab, and the App runs on
C35_Witness ==
    /\ last_key = "q"
    /\ error_popup # None
    /\ show_help
    /\ ~should_quit
    /\ active_tab = "Clients"
    /\ last_cmd = None


\* the limbs of frame below the lowest limb that is not LimbMax
carried_limbs(frame) ==
    { i \in 1..LimbCount : \A j \in 1..i : frame[j] = LimbMax }

\* frame + 1 modulo 2^64: the limbs a carry passes through become 0, the
\* limb above them grows by 1, the limbs above that stay
plus_one_mod_2_64(frame) ==
    LET k == Cardinality(carried_limbs(frame))
    IN [i \in 1..LimbCount |->
          IF i <= k THEN 0
          ELSE IF i = k + 1 THEN frame[i] + 1
          ELSE frame[i]]

\* C36: scroll_left and scroll_right change only scroll_offset; zoom_in and
\* zoom_out change only the zoom; select_next and select_previous change only
\* selected_index; tick increments animation_frame by exactly 1 modulo 2^64
\* and changes nothing else.
C36_ViewportFrameConditions ==
    [][/\ (\E amount \in {1, 7} :
              StateScrollLeft(amount) \/ StateScrollRight(amount)) =>
              UNCHANGED <<selected_project, days_per_column, animation_frame>>
       /\ (StateZoomIn \/ StateZoomOut) =>
              UNCHANGED <<scroll_offset, selected_project, animation_frame>>
       /\ (StateSelectNext \/ StateSelectPrevious) =>
              UNCHANGED <<scroll_offset, days_per_column, animation_frame>>
       /\ StateTick =>
              /\ animation_frame' = plus_one_mod_2_64(animation_frame)
              /\ UNCHANGED <<scroll_offset, selected_project, days_per_column>>
      ]_vars

\* tick has just wrapped the counter from u64::MAX to 0, on a state that was
\* scrolled, zoomed and given a selection before
C36_Witness ==
    /\ last_key = "tick"
    /\ animation_frame = ZeroFrame
    /\ scroll_offset = 7
    /\ days_per_column > DefaultZoom
    /\ selected_project = Some(2)


\* the worker's health check for a RefreshAll returns
health_checked ==
    /\ worker_cmd = Some([cmd |-> "RefreshAll"])
    /\ worker_pc = "run"
    /\ worker_pending' # worker_pending

\* the worker's three fetches for a RefreshAll return
answers_refresh_all ==
    /\ worker_pc = "fetch"
    /\ worker_pc' = "run"

\* the ordering part of C37: the messages the worker sets out to send for a
\* RefreshAll start with ConnectionStatus; after a failed health check one
\* Error follows and nothing else; after a successful one three results
\* follow, for projects, clients and users in this order, each the Loaded
\* message or an Error; and the worker sends them in this order.
C37_RefreshAllOrder ==
    [][/\ health_checked =>
             /\ worker_pending = <<>>
             /\ worker_pending'[1].msg = "ConnectionStatus"
             /\ IF worker_pending'[1].connected
                THEN /\ Len(worker_pending') = 1
                     /\ worker_pc' = "fetch"
                ELSE /\ Len(worker_pending') = 2
                     /\ worker_pending'[2].msg = "Error"
                     /\ worker_pc' = "run"
                     /\ worker_cmd' = None
       /\ answers_refresh_all =>
             /\ worker_pending = <<>>
             /\ Len(worker_pending') = 3
             /\ worker_pending'[1].msg \in {"ProjectsLoaded", "Error"}
             /\ worker_pending'[2].msg \in {"ClientsLoaded", "Error"}
             /\ worker_pending'[3].msg \in {"UsersLoaded", "Error"}
             /\ worker_cmd' = None
       /\ WorkerSend =>
             /\ msg_queue' = Append(msg_queue, Head(worker_pending))
             /\ worker_pending' = Tail(worker_pending)]_vars

\* results of a RefreshAll are still to be sent: its fetches have returned,
\* and no other command has more than one message
refresh_all_unfinished == Len(worker_pending) >= 2

\* C37: for each RefreshAll the worker sends ConnectionStatus and then, after
\* a failed health check, one Error, or after a successful one three results
\* for projects, clients and users: once it has taken up the answers, all of
\* them are eventually sent.
C37_RefreshAllAnswered ==
    refresh_all_unfinished ~> (worker_pending = <<>> \/ out_of_ticks)


\* the length of the list the active tab shows, 0 on the timeline tab
list_total ==
    CASE active_tab = "Clients" -> Len(clients)
      [] active_tab = "Users" -> Len(users)
      [] OTHER -> 0

\* C38: after handle_list_key processes j/k/g/G or the arrow keys on a list
\* of total >= 1 entries, list_selected < total, also when list_selected was
\* left out of range by a refresh that shrank the list; j and k move by +1
\* and -1 modulo total.
C38_ListCursorInRange ==
    [][\A key \in ListMoveKeys :
          (OverlayKey(key) /\ list_total >= 1) =>
              /\ list_selected' < list_total
              /\ key \in {"j", "Down"} =>
                    list_selected' = (list_selected + 1) % list_total
              /\ key \in {"k", "Up"} =>
                    list_selected' = (list_selected - 1) % list_total]_vars

====
